---- MODULE Spec2Model ----
(***************************************************************************)
(* JourneyCompass: the planning core, the chat endpoint and the microphone. *)
(*                                                                         *)
(*  - parseTimeConstraint and extractTasks (server/TESTING_GUIDE.md, "Time *)
(*    Constraint Parser"): the request parser.                             *)
(*  - calculateGasStops (server/maps.ts): the leg-by-leg fuel simulation,  *)
(*    and POST /api/find-stops (server/gemini.ts), which calls it.         *)
(*  - calculateTimeBudget, allocateDwellTime, buildTimeline and the        *)
(*    feasibility check (VOICE_CONVERSATION_DESIGN.md, "Time-Constrained   *)
(*    Multi-Stop Routing System Design").                                  *)
(*  - parseTimeConstraint followed by calculateTimeBudget, each reading    *)
(*    the clock for itself (SpecClock).                                    *)
(*  - POST /api/chat and POST /api/plan-route (server/gemini.ts) over      *)
(*    MemStorage (server/storage.ts).                                      *)
(*  - useMicrophone (client/src/hooks/useMicrophone.ts) over               *)
(*    startWakeWordDetection and startRecordingWithSilenceDetection        *)
(*    (lib/microphoneService), with time in ticks of 100 ms.               *)
(*                                                                         *)
(* Numbers.  JavaScript numbers are modelled as exact rationals in fixed   *)
(* point; floating-point rounding is not modelled.                         *)
(*  - Fuel simulation: fuelLevel and minimumFuelThreshold are counted in   *)
(*    tenths (10 = a full tank, 2 = the default 0.2); every distance in    *)
(*    miles is counted in tenths of a mile.                                *)
(*  - Planner: every quantity in minutes is counted in sixtieths of a      *)
(*    minute; a Date is its count of whole seconds since the epoch.        *)
(***************************************************************************)
EXTENDS Integers, Sequences, FiniteSets, TLC

VARIABLES
    pc,                    \* position of the running function
    route,                 \* route.legs, a sequence of legs
    fuelLevel,             \* calculateGasStops argument, in tenths
    vehicleRange,          \* calculateGasStops argument, in miles
    minimumFuelThreshold,  \* calculateGasStops argument, in tenths
    legIndex,              \* index of the leg the for loop is at (0 before the first)
    currentFuel,           \* tenths of a mile
    totalDistanceCovered,  \* tenths of a mile
    remainingLegDistance,  \* tenths of a mile
    stops,                 \* the result list
    stopLegs,              \* history: stopLegs[i] is the leg during which stops[i] was pushed
    now,                   \* the clock reading of the request (new Date()), in seconds
    timeConstraint,        \* request.timeConstraint
    tasks,                 \* request.tasks
    timeBudget,            \* the TimeBudget returned by calculateTimeBudget
    steps,                 \* buildTimeline: steps
    currentTime,           \* buildTimeline: currentTime, in seconds
    totalDuration,         \* buildTimeline: totalDuration, in sixtieths of a minute
    feasibility,           \* the result of the feasibility check
    thrown,                \* the exception that ended the request, "" if none
    console,               \* the lines written with console.warn
    message,               \* the text given to parseTimeConstrainedRequest
    matchedTexts,          \* extractTasks: matchedTexts
    lastIndex,             \* extractTasks: genericStopPattern.lastIndex, in words
    clockReads,            \* history: the readings of the system clock, in order
    tripRequest,           \* POST /api/find-stops: the stored trip request
    response,              \* POST /api/find-stops: the response sent
    tripRequests,          \* storage.tripRequests: id -> trip request
    messages,              \* storage.messages, in insertion order
    clientTripId,          \* the tripRequestId the client sends with its next message
    conversationHistory,   \* POST /api/chat: the history given to parseUserRequest
    tripParameters,        \* POST /api/chat: what parseUserRequest returned
    accepted,              \* history: the user messages POST /api/chat has answered
    serverClock,           \* the server's clock, in milliseconds
    isListeningRef,        \* useMicrophone: isListeningRef.current
    isTransitioningRef,    \* useMicrophone: isTransitioningRef.current
    wakeWordRecognitionRef, \* useMicrophone: wakeWordRecognitionRef.current
    recordingStateRef,     \* useMicrophone: recordingStateRef.current
    isRecording,           \* useMicrophone: the state isRecording
    wake,                  \* the closures made by startWakeWordDetection
    recordings,            \* the closures made by startRecordingWithSilenceDetection
    permissionPending,     \* startListening waits for requestMicrophonePermission
    transitionTimer,       \* handleWakeWordDetected: the 300 ms wait
    stopped                \* history: stopListening returned, startListening not called since

fuelVars == <<fuelLevel, vehicleRange, minimumFuelThreshold, currentFuel,
              totalDistanceCovered, remainingLegDistance, stops, stopLegs>>

planVars == <<now, timeConstraint, tasks, timeBudget, steps, currentTime,
              totalDuration, feasibility, thrown, console>>

parseVars == <<message, matchedTexts, lastIndex, clockReads>>

findStopsVars == <<tripRequest, response>>

chatVars == <<tripRequests, messages, clientTripId, conversationHistory,
              tripParameters, accepted, serverClock>>

voiceVars == <<isListeningRef, isTransitioningRef, wakeWordRecognitionRef,
               recordingStateRef, isRecording, wake, recordings, permissionPending,
               transitionTimer, stopped>>

vars == <<pc, route, legIndex, fuelVars, planVars, parseVars, findStopsVars, chatVars,
          voiceVars>>

\* null
Null == 0 - 1

\* undefined
Undefined == 0 - 2

\* tripParameters before any message
NoParameters ==
    [origin |-> Undefined, destination |-> Undefined, fuelLevel |-> Undefined,
     vehicleRange |-> Undefined, preferences |-> Undefined]

\* the storage and the conversation before any request
ChatIdle ==
    /\ tripRequests = <<>>
    /\ messages = <<>>
    /\ clientTripId = Null
    /\ conversationHistory = <<>>
    /\ tripParameters = NoParameters
    /\ accepted = <<>>
    /\ serverClock = 0

\* useMicrophone after its first render
VoiceIdle ==
    /\ isListeningRef = FALSE
    /\ isTransitioningRef = FALSE
    /\ wakeWordRecognitionRef = Null
    /\ recordingStateRef = Null
    /\ isRecording = FALSE
    /\ wake = <<>>
    /\ recordings = <<>>
    /\ permissionPending = FALSE
    /\ transitionTimer = Null
    /\ stopped = FALSE

-----------------------------------------------------------------------------
(* Bounds and input sets *)

MaxLegs == 2   \* legs of a route given to calculateGasStops

\* leg.distance.value in metres; 0 stands for a leg without a distance
\* ((leg.distance?.value || 0)).  80467 m = 50 miles.
LegMeters == {0, 80467, 321868, 804670}

VehicleRanges == {100, 250, 300}
FuelLevels == {0, 2, 5, 10}
Thresholds == {0, 2, 5}

\* The waypoints the legs run between: leg i runs from Waypoint(i) to Waypoint(i+1).
Waypoint(i) == [lat |-> 7 * i * i, lng |-> 0 - 10 * i]

\* --- planner inputs ---

MaxRouteLegs == 3
MaxTasks == 2

\* leg.duration.value in seconds (every leg has a duration)
LegSeconds == {1200, 1800, 3600}

\* new Date() of the request, in seconds since the epoch
Clock == {60}

\* request.timeConstraint: a duration in minutes, or an instant (a Date) for
\* the types 'deadline' and 'arrival_time'
DurationMinutes == {0, 63, 65, 90, 120, 200}
DeadlineInstants == {0, 60, 5460}
ArrivalInstants == {1260}

TimeConstraints ==
    {[type |-> "duration", value |-> m] : m \in DurationMinutes}
    \cup {[type |-> "deadline", value |-> d] : d \in DeadlineInstants}
    \cup {[type |-> "arrival_time", value |-> d] : d \in ArrivalInstants}

\* Tasks as extractTasks returns them, reduced to the two fields the planner reads.
TaskKinds ==
    { [description |-> "Pick up kids", category |-> "school"],
      [description |-> "Get groceries", category |-> "grocery"],
      [description |-> "Get coffee", category |-> "coffee"],
      [description |-> "Gym", category |-> "gym"],
      [description |-> "library", category |-> "generic"] }

SeqsUpTo(S, n) == UNION {[1..k -> S] : k \in 0..n}

-----------------------------------------------------------------------------
(* JavaScript numbers that may be NaN.  undefined is modelled as NaN: every  *)
(* arithmetic use of undefined below yields NaN.                             *)

Num(n) == [nan |-> FALSE, v |-> n]
NaN == [nan |-> TRUE, v |-> 0]

JsAdd(a, b) == IF a.nan \/ b.nan THEN NaN ELSE Num(a.v + b.v)

\* Math.max(a, b)
JsMax(a, b) == IF a.nan \/ b.nan THEN NaN ELSE Num(IF a.v >= b.v THEN a.v ELSE b.v)

\* x || fallback, for a number x: NaN and 0 are falsy
JsOr(x, fallback) == IF x.nan \/ x.v = 0 THEN fallback ELSE x.v

\* floor(a * b / c) for c > 0, without forming a * b
FloorMulDiv(a, b, c) == a * (b \div c) + ((a * (b % c)) \div c)

-----------------------------------------------------------------------------
(* calculateTimeBudget and allocateDwellTime *)

\* sixtieths of a minute per minute: the fixed-point unit of every minute count
PerMinute == 60

\* the source's 60000: Date ticks (here seconds) per minute
TicksPerMinute == 60

\* Date.prototype.getTime, in seconds
GetTime(date) == date

TYPICAL_DWELL_TIMES ==
    [school |-> 5, daycare |-> 5, grocery |-> 20, quick_shop |-> 10,
     restaurant |-> 15, sit_down |-> 45, coffee |-> 10, post_office |-> 10,
     pharmacy |-> 10, bank |-> 15, gas |-> 5, default |-> 10]

\* TYPICAL_DWELL_TIMES[task.category || 'default']
TypicalDwellTime(task) ==
    LET key == IF task.category = "" THEN "default" ELSE task.category
    IN  IF key \in DOMAIN TYPICAL_DWELL_TIMES
        THEN Num(TYPICAL_DWELL_TIMES[key])
        ELSE NaN

MIN_DWELL == 5

\* allocations.set(key, value)
MapSet(map, key, value) == (key :> value) @@ map

EmptyMap == [k \in {} |-> NaN]

RECURSIVE AssignTypical(_, _, _)
\* Step 1, tasks k..: allocations.set(task.description, typical)
AssignTypical(ts, k, allocations) ==
    IF k > Len(ts) THEN allocations
    ELSE AssignTypical(ts, k + 1,
                       MapSet(allocations, ts[k].description, TypicalDwellTime(ts[k])))

RECURSIVE TotalTypical(_, _)
\* Step 1, tasks 1..k: totalTypical += typical
TotalTypical(ts, k) ==
    IF k = 0 THEN Num(0) ELSE JsAdd(TotalTypical(ts, k - 1), TypicalDwellTime(ts[k]))

\* const ratio = totalDwellTime / totalTypical: totalDwellTime in sixtieths of
\* a minute over totalTypical minutes (den = 0: no task, the ratio is not used)
Ratio(totalDwellTime, totalTypical) ==
    [nan |-> totalTypical.nan, num |-> totalDwellTime, den |-> totalTypical.v]

ScaledCapped(typical, ratio) ==
    IF typical.nan \/ ratio.nan THEN NaN
    ELSE IF ratio.num > ratio.den * PerMinute
         THEN JsMax(Num(MIN_DWELL), typical)
         ELSE JsMax(Num(MIN_DWELL),
                    Num(FloorMulDiv(typical.v, ratio.num, ratio.den * PerMinute)))

\* const scaled = Math.max(MIN_DWELL, Math.floor(typical * ratio))
Scaled(typical, ratio) ==
    IF typical.nan \/ ratio.nan THEN NaN
    ELSE JsMax(Num(MIN_DWELL),
               Num(FloorMulDiv(typical.v, ratio.num, ratio.den * PerMinute)))

RECURSIVE ScaleAll(_, _, _, _)
\* Step 3, tasks k..: typical = allocations.get(task.description);
\* allocations.set(task.description, scaled)
ScaleAll(ts, k, ratio, allocations) ==
    IF k > Len(ts) THEN allocations
    ELSE ScaleAll(ts, k + 1, ratio,
                  MapSet(allocations, ts[k].description,
                         Scaled(allocations[ts[k].description], ratio)))

\* allocateDwellTime(tasks, totalDwellTime); totalDwellTime in sixtieths of a minute
AllocateDwellTime(ts, totalDwellTime) ==
    LET typicals == AssignTypical(ts, 1, EmptyMap)
        ratio == Ratio(totalDwellTime, TotalTypical(ts, Len(ts)))
    IN  ScaleAll(ts, 1, ratio, typicals)

\* ratio < 0.7, for ratio = totalDwellTime / totalTypical as JavaScript divides:
\* with totalTypical = 0 the ratio is -Infinity, NaN or Infinity
RatioBelowWarnLevel(ratio) ==
    /\ ~ratio.nan
    /\ IF ratio.den = 0
       THEN ratio.num < 0
       ELSE ratio.num * 10 < 7 * ratio.den * PerMinute

\* what allocateDwellTime writes with console.warn
AllocateDwellTimeWarnings(ts, totalDwellTime) ==
    LET totalTypical == TotalTypical(ts, Len(ts))
    IN  IF RatioBelowWarnLevel(Ratio(totalDwellTime, totalTypical))
        THEN << [text |-> "Time constraint too tight",
                 need |-> totalTypical.v, have |-> totalDwellTime] >>
        ELSE <<>>

RECURSIVE SumLegSeconds(_, _)
\* route.legs.reduce((sum, leg) => sum + (leg.duration?.value || 0), 0), legs 1..k
SumLegSeconds(legs, k) ==
    IF k = 0 THEN 0 ELSE SumLegSeconds(legs, k - 1) + legs[k].duration

\* totalAvailable: for 'deadline' (value - now) / 60000; otherwise
\* timeConstraint.value taken as minutes, a Date (type 'arrival_time')
\* being coerced to its time value
TotalAvailable(tc, clock) ==
    IF tc.type = "deadline"
    THEN ((GetTime(tc.value) - GetTime(clock)) * PerMinute) \div TicksPerMinute
    ELSE IF tc.type = "duration"
         THEN tc.value * PerMinute
         ELSE GetTime(tc.value) * PerMinute

\* route.legs.reduce(...) / 60
DrivingTime(legs) == (SumLegSeconds(legs, Len(legs)) * PerMinute) \div 60

\* totalAvailable * 0.10
BufferTime(totalAvailable) == totalAvailable \div 10

\* calculateTimeBudget(route, timeConstraint, tasks), every field but
\* stopAllocations in sixtieths of a minute
CalculateTimeBudgetOf(legs, tc, ts, clock) ==
    LET totalAvailable == TotalAvailable(tc, clock)
        drivingTime == DrivingTime(legs)
        bufferTime == BufferTime(totalAvailable)
        dwellTime == totalAvailable - drivingTime - bufferTime
    IN  [totalAvailable |-> totalAvailable,
         drivingTime |-> drivingTime,
         bufferTime |-> bufferTime,
         dwellTime |-> dwellTime,
         stopAllocations |-> AllocateDwellTime(ts, dwellTime)]

\* timeBudget before calculateTimeBudget has returned
NoBudget ==
    [totalAvailable |-> 0, drivingTime |-> 0, bufferTime |-> 0, dwellTime |-> 0,
     stopAllocations |-> EmptyMap]

\* tripRequest and response outside POST /api/find-stops
NoTripRequest ==
    [found |-> FALSE, hasRoute |-> FALSE, hasPolyline |-> FALSE, route |-> <<>>,
     fuelLevel |-> 0, vehicleRange |-> 0]
NoResponse == [status |-> 0, gasStopsComputed |-> FALSE]

-----------------------------------------------------------------------------
(* calculateGasStops *)

MetersPerMileTimes100 == 160934

\* const legDistanceMiles = (leg.distance?.value || 0) / 1609.34, in tenths of a mile
LegDistanceMiles(leg) == (leg.distance * 1000) \div MetersPerMileTimes100

\* const minFuelRemaining = minimumFuelThreshold * vehicleRange
MinFuelRemaining == minimumFuelThreshold * vehicleRange

\* const safeRangePerTank = (1 - minimumFuelThreshold) * vehicleRange
SafeRangePerTank == (10 - minimumFuelThreshold) * vehicleRange

DistanceToRefuelNoReserve(fuel, minFuel) == fuel

LegRemainsOrIsDone(remaining) == remaining >= 0

\* while (remainingLegDistance > 0)
LegRemains(remaining) == remaining > 0

\* const distanceToRefuel = currentFuel - minFuelRemaining
DistanceToRefuel(fuel, minFuel) == fuel - minFuel

\* const progressRatio = distanceToRefuel / legDistanceMiles, kept as the
\* pair numerator, denominator
ProgressRatio(distanceToRefuel, legDistanceMiles) ==
    [num |-> distanceToRefuel, den |-> legDistanceMiles]

\* start + (end - start) * ratio, as a fraction over ratio.den
Interpolate(from, to, ratio) ==
    [lat |-> from.lat * ratio.den + (to.lat - from.lat) * ratio.num,
     lng |-> from.lng * ratio.den + (to.lng - from.lng) * ratio.num,
     den |-> ratio.den]

FuelLeg(i, meters) ==
    [distance |-> meters, duration |-> 0,
     start_location |-> Waypoint(i), end_location |-> Waypoint(i + 1)]

FuelRoutes ==
    {[i \in DOMAIN ms |-> FuelLeg(i, ms[i])] : ms \in SeqsUpTo(LegMeters, MaxLegs)}

\* State at the first line of the for loop (lines 157-163 executed).
InitFuel ==
    /\ route \in FuelRoutes
    /\ fuelLevel \in FuelLevels
    /\ vehicleRange \in VehicleRanges
    /\ minimumFuelThreshold \in Thresholds
    /\ pc = "for"
    /\ legIndex = 0
    /\ currentFuel = fuelLevel * vehicleRange
    /\ totalDistanceCovered = 0
    /\ remainingLegDistance = 0
    /\ stops = <<>>
    /\ stopLegs = <<>>
    /\ now = 0
    /\ timeConstraint = [type |-> "duration", value |-> 0]
    /\ tasks = <<>>
    /\ timeBudget = NoBudget
    /\ steps = <<>>
    /\ currentTime = 0
    /\ totalDuration = 0
    /\ feasibility = ""
    /\ thrown = ""
    /\ console = <<>>
    /\ message = <<>>
    /\ matchedTexts = {}
    /\ lastIndex = 0
    /\ clockReads = <<>>
    /\ tripRequest = NoTripRequest
    /\ response = NoResponse
    /\ ChatIdle
    /\ VoiceIdle

\* for (const leg of legs): the next leg is entered
GasNextLeg ==
    /\ pc = "for"
    /\ legIndex < Len(route)
    /\ legIndex' = legIndex + 1
    /\ remainingLegDistance' = LegDistanceMiles(route[legIndex + 1])
    /\ pc' = "while"
    /\ UNCHANGED <<parseVars, findStopsVars, chatVars, voiceVars, planVars, route, fuelLevel, vehicleRange, minimumFuelThreshold, currentFuel,
                   totalDistanceCovered, stops, stopLegs>>

\* while (remainingLegDistance > 0), the branch remainingLegDistance <= distanceToRefuel
GasDriveOn ==
    /\ pc = "while"
    /\ LegRemains(remainingLegDistance)
    /\ remainingLegDistance <= DistanceToRefuel(currentFuel, MinFuelRemaining)
    /\ currentFuel' = currentFuel - remainingLegDistance
    /\ totalDistanceCovered' = totalDistanceCovered + remainingLegDistance
    /\ remainingLegDistance' = 0
    /\ UNCHANGED <<parseVars, findStopsVars, chatVars, voiceVars, planVars, pc, route, legIndex, fuelLevel, vehicleRange, minimumFuelThreshold,
                   stops, stopLegs>>

\* while (remainingLegDistance > 0), the else branch: a stop is pushed
GasRefuel ==
    LET leg == route[legIndex]
        distanceToRefuel == DistanceToRefuel(currentFuel, MinFuelRemaining)
        stopDistance == totalDistanceCovered + distanceToRefuel
        progressRatio == ProgressRatio(distanceToRefuel, LegDistanceMiles(leg))
    IN  /\ pc = "while"
        /\ LegRemains(remainingLegDistance)
        /\ ~(remainingLegDistance <= distanceToRefuel)
        /\ stops' = Append(stops,
              [distance |-> stopDistance,
               location |-> Interpolate(leg.start_location, leg.end_location,
                                        progressRatio)])
        /\ stopLegs' = Append(stopLegs, legIndex)
        /\ currentFuel' = vehicleRange * 10
        /\ totalDistanceCovered' = stopDistance
        /\ remainingLegDistance' = remainingLegDistance - distanceToRefuel
        /\ UNCHANGED <<parseVars, findStopsVars, chatVars, voiceVars, planVars, pc, route, legIndex, fuelLevel, vehicleRange,
                       minimumFuelThreshold>>

\* the while loop ends: remainingLegDistance > 0 is false
GasLegDone ==
    /\ pc = "while"
    /\ ~LegRemains(remainingLegDistance)
    /\ pc' = "for"
    /\ UNCHANGED <<parseVars, findStopsVars, chatVars, voiceVars, route, legIndex, fuelVars, planVars>>

\* return stops
GasReturn ==
    /\ pc = "for"
    /\ legIndex = Len(route)
    /\ pc' = "returned"
    /\ UNCHANGED <<parseVars, findStopsVars, chatVars, voiceVars, route, legIndex, fuelVars, planVars>>

NextFuel == GasNextLeg \/ GasDriveOn \/ GasRefuel \/ GasLegDone \/ GasReturn

SpecFuel == InitFuel /\ [][NextFuel]_vars

\* The call runs to completion: the function is synchronous, so a step that is
\* possible is eventually taken.
SpecFuelFair == SpecFuel /\ WF_vars(NextFuel)

-----------------------------------------------------------------------------
(* POST /api/find-stops (server/gemini.ts): the part that decides whether    *)
(* calculateGasStops runs.  The place searches (findPlacesAlongRoute,        *)
(* generateStopReason) are calls to outside services and are left out.       *)

\* the default of the parameter minimumFuelThreshold, 0.2, in tenths
DefaultMinimumFuelThreshold == 2

\* what storage.getTripRequest(tripRequestId) resolves to
StoredTripRequests ==
    [found : BOOLEAN, hasRoute : BOOLEAN, hasPolyline : BOOLEAN,
     route : FuelRoutes,
     fuelLevel : FuelLevels \cup {Null},
     vehicleRange : VehicleRanges \cup {Null}]

\* JavaScript truthiness of a stored number: null and 0 are falsy
Truthy(x) == x # Null /\ x # 0

InitFindStops ==
    /\ tripRequest \in StoredTripRequests
    /\ response = NoResponse
    /\ ChatIdle
    /\ VoiceIdle
    /\ pc = "find-stops"
    /\ route = <<>>
    /\ legIndex = 0
    /\ fuelLevel = 0
    /\ vehicleRange = 0
    /\ minimumFuelThreshold = 0
    /\ currentFuel = 0
    /\ totalDistanceCovered = 0
    /\ remainingLegDistance = 0
    /\ stops = <<>>
    /\ stopLegs = <<>>
    /\ now = 0
    /\ timeConstraint = [type |-> "duration", value |-> 0]
    /\ tasks = <<>>
    /\ timeBudget = NoBudget
    /\ steps = <<>>
    /\ currentTime = 0
    /\ totalDuration = 0
    /\ feasibility = ""
    /\ thrown = ""
    /\ console = <<>>
    /\ message = <<>>
    /\ matchedTexts = {}
    /\ lastIndex = 0
    /\ clockReads = <<>>

\* if (!tripRequest || !tripRequest.route) return res.status(404)
FindStopsNotFound ==
    /\ pc = "find-stops"
    /\ ~tripRequest.found \/ ~tripRequest.hasRoute
    /\ response' = [status |-> 404, gasStopsComputed |-> FALSE]
    /\ pc' = "responded"
    /\ UNCHANGED <<route, legIndex, fuelVars, planVars, parseVars, tripRequest, chatVars,
                    voiceVars>>

\* if (!polyline) return res.status(400)
FindStopsNoPolyline ==
    /\ pc = "find-stops"
    /\ tripRequest.found /\ tripRequest.hasRoute
    /\ ~tripRequest.hasPolyline
    /\ response' = [status |-> 400, gasStopsComputed |-> FALSE]
    /\ pc' = "responded"
    /\ UNCHANGED <<route, legIndex, fuelVars, planVars, parseVars, tripRequest, chatVars,
                    voiceVars>>

\* if (tripRequest.fuelLevel && tripRequest.vehicleRange)
RunsFuelSimulation(request) == Truthy(request.fuelLevel) /\ Truthy(request.vehicleRange)

\* calculateGasStops(tripRequest.route, tripRequest.fuelLevel,
\* tripRequest.vehicleRange) is called: lines 157-163 of calculateGasStops
FindStopsCalculateGasStops ==
    /\ pc = "find-stops"
    /\ tripRequest.found /\ tripRequest.hasRoute /\ tripRequest.hasPolyline
    /\ RunsFuelSimulation(tripRequest)
    /\ route' = tripRequest.route
    /\ fuelLevel' = tripRequest.fuelLevel
    /\ vehicleRange' = tripRequest.vehicleRange
    /\ minimumFuelThreshold' = DefaultMinimumFuelThreshold
    /\ currentFuel' = tripRequest.fuelLevel * tripRequest.vehicleRange
    /\ totalDistanceCovered' = 0
    /\ remainingLegDistance' = 0
    /\ stops' = <<>>
    /\ stopLegs' = <<>>
    /\ legIndex' = 0
    /\ pc' = "for"
    /\ UNCHANGED <<planVars, parseVars, findStopsVars, chatVars, voiceVars>>

\* the fuel condition is false: the gas-stop block is skipped and the
\* response is sent
FindStopsSkipGasStops ==
    /\ pc = "find-stops"
    /\ tripRequest.found /\ tripRequest.hasRoute /\ tripRequest.hasPolyline
    /\ ~RunsFuelSimulation(tripRequest)
    /\ response' = [status |-> 200, gasStopsComputed |-> FALSE]
    /\ pc' = "responded"
    /\ UNCHANGED <<route, legIndex, fuelVars, planVars, parseVars, tripRequest, chatVars,
                    voiceVars>>

\* calculateGasStops has returned gasStopLocations: the response is sent
FindStopsRespond ==
    /\ pc = "returned"
    /\ tripRequest # NoTripRequest
    /\ response' = [status |-> 200, gasStopsComputed |-> TRUE]
    /\ pc' = "responded"
    /\ UNCHANGED <<route, legIndex, fuelVars, planVars, parseVars, tripRequest, chatVars,
                    voiceVars>>

NextFindStops ==
    \/ FindStopsNotFound
    \/ FindStopsNoPolyline
    \/ FindStopsCalculateGasStops
    \/ FindStopsSkipGasStops
    \/ GasNextLeg
    \/ GasDriveOn
    \/ GasRefuel
    \/ GasLegDone
    \/ GasReturn
    \/ FindStopsRespond

SpecFindStops == InitFindStops /\ [][NextFindStops]_vars

-----------------------------------------------------------------------------
(* optimizeRouteWithTimeConstraints, steps 4 to 6: calculateTimeBudget,      *)
(* buildTimeline, the feasibility check                                      *)

PlanLeg(i, seconds) ==
    [distance |-> 0, duration |-> seconds,
     start_location |-> Waypoint(i), end_location |-> Waypoint(i + 1)]

PlanRoutes ==
    {[i \in DOMAIN ds |-> PlanLeg(i, ds[i])] : ds \in SeqsUpTo(LegSeconds, MaxRouteLegs)}

InitPlan ==
    /\ route \in PlanRoutes
    /\ tasks \in SeqsUpTo(TaskKinds, MaxTasks)
    /\ timeConstraint \in TimeConstraints
    /\ now \in Clock
    /\ pc = "calculateTimeBudget"
    /\ legIndex = 0
    /\ timeBudget = NoBudget
    /\ steps = <<>>
    /\ currentTime = 0
    /\ totalDuration = 0
    /\ feasibility = ""
    /\ thrown = ""
    /\ fuelLevel = 0
    /\ vehicleRange = 0
    /\ minimumFuelThreshold = 0
    /\ currentFuel = 0
    /\ totalDistanceCovered = 0
    /\ remainingLegDistance = 0
    /\ stops = <<>>
    /\ stopLegs = <<>>
    /\ console = <<>>
    /\ message = <<>>
    /\ matchedTexts = {}
    /\ lastIndex = 0
    /\ clockReads = <<>>
    /\ tripRequest = NoTripRequest
    /\ response = NoResponse
    /\ ChatIdle
    /\ VoiceIdle

\* const timeBudget = calculateTimeBudget(route, request.timeConstraint, request.tasks),
\* then the first two lines of buildTimeline
CalculateTimeBudget ==
    /\ pc = "calculateTimeBudget"
    /\ timeBudget' = CalculateTimeBudgetOf(route, timeConstraint, tasks, now)
    /\ console' = console \o AllocateDwellTimeWarnings(tasks, timeBudget'.dwellTime)
    /\ steps' = <<>>
    /\ currentTime' = now
    /\ legIndex' = 0
    /\ pc' = "buildTimeline"
    /\ UNCHANGED <<parseVars, findStopsVars, chatVars, voiceVars, route, fuelVars, now, timeConstraint, tasks, totalDuration,
                   feasibility, thrown>>

\* new Date(date.getTime() + duration * 60000), duration in sixtieths of a minute
AdvanceClock(date, duration) ==
    GetTime(date) + FloorMulDiv(TicksPerMinute, duration, PerMinute)

\* const driveDuration = (leg.duration?.value || 0) / 60
DriveDuration(leg) == (leg.duration * PerMinute) \div 60

DriveStep(leg, start) ==
    [type |-> "drive",
     startTime |-> start,
     endTime |-> AdvanceClock(start, DriveDuration(leg)),
     duration |-> DriveDuration(leg),
     description |-> "Drive"]

FallbackDwell == 10

\* const dwellDuration = timeBudget.stopAllocations.get(task.description) || 10
DwellDuration(budget, task) ==
    JsOr(budget.stopAllocations[task.description], FallbackDwell)

StopStepKeepsClock(budget, task, start) ==
    [type |-> "stop",
     startTime |-> start,
     endTime |-> IF budget.stopAllocations[task.description].nan
                 THEN start
                 ELSE AdvanceClock(start, DwellDuration(budget, task) * PerMinute),
     duration |-> DwellDuration(budget, task) * PerMinute,
     description |-> task.description]

StopStep(budget, task, start) ==
    [type |-> "stop",
     startTime |-> start,
     endTime |-> AdvanceClock(start, DwellDuration(budget, task) * PerMinute),
     duration |-> DwellDuration(budget, task) * PerMinute,
     description |-> task.description]

\* if (index < route.legs.length - 1 || route.legs.length === 1), index from 0
HasStop(index, legs) == index < Len(legs) - 1 \/ Len(legs) = 1

\* route.legs.forEach callback for a leg that gets no stop
BuildTimelineDrive ==
    LET drive == DriveStep(route[legIndex + 1], currentTime)
    IN  /\ pc = "buildTimeline"
        /\ legIndex < Len(route)
        /\ ~HasStop(legIndex, route)
        /\ steps' = Append(steps, drive)
        /\ currentTime' = drive.endTime
        /\ legIndex' = legIndex + 1
        /\ UNCHANGED <<parseVars, findStopsVars, chatVars, voiceVars, console, pc, route, fuelVars, now, timeConstraint, tasks, timeBudget,
                       totalDuration, feasibility, thrown>>

\* route.legs.forEach callback for a leg followed by a stop: tasks[index] exists
BuildTimelineDriveAndStop ==
    LET drive == DriveStep(route[legIndex + 1], currentTime)
        stop == StopStep(timeBudget, tasks[legIndex + 1], drive.endTime)
    IN  /\ pc = "buildTimeline"
        /\ legIndex < Len(route)
        /\ HasStop(legIndex, route)
        /\ legIndex + 1 <= Len(tasks)
        /\ steps' = steps \o <<drive, stop>>
        /\ currentTime' = stop.endTime
        /\ legIndex' = legIndex + 1
        /\ UNCHANGED <<parseVars, findStopsVars, chatVars, voiceVars, console, pc, route, fuelVars, now, timeConstraint, tasks, timeBudget,
                       totalDuration, feasibility, thrown>>

\* route.legs.forEach callback for a leg followed by a stop: tasks[index] is
\* undefined and task.description throws a TypeError
BuildTimelineNoTask ==
    LET drive == DriveStep(route[legIndex + 1], currentTime)
    IN  /\ pc = "buildTimeline"
        /\ legIndex < Len(route)
        /\ HasStop(legIndex, route)
        /\ legIndex + 1 > Len(tasks)
        /\ steps' = Append(steps, drive)
        /\ currentTime' = drive.endTime
        /\ thrown' = "TypeError"
        /\ pc' = "threw"
        /\ UNCHANGED <<parseVars, findStopsVars, chatVars, voiceVars, console, route, legIndex, fuelVars, now, timeConstraint, tasks,
                       timeBudget, totalDuration, feasibility>>

\* const totalDuration = (currentTime.getTime() - steps[0].startTime.getTime()) / 60000
\* and the return; steps[0] is undefined for a route without legs
BuildTimelineReturn ==
    /\ pc = "buildTimeline"
    /\ legIndex = Len(route)
    /\ steps # <<>>
    /\ totalDuration' =
          FloorMulDiv(PerMinute, GetTime(currentTime) - GetTime(steps[1].startTime),
                      TicksPerMinute)
    /\ pc' = "checkFeasibility"
    /\ UNCHANGED <<parseVars, findStopsVars, chatVars, voiceVars, console, route, legIndex, fuelVars, now, timeConstraint, tasks, timeBudget,
                   steps, currentTime, feasibility, thrown>>

BuildTimelineNoSteps ==
    /\ pc = "buildTimeline"
    /\ legIndex = Len(route)
    /\ steps = <<>>
    /\ thrown' = "TypeError"
    /\ pc' = "threw"
    /\ UNCHANGED <<parseVars, findStopsVars, chatVars, voiceVars, console, route, legIndex, fuelVars, now, timeConstraint, tasks, timeBudget,
                   steps, currentTime, totalDuration, feasibility>>

\* the Timeline buildTimeline returns
Timeline == [steps |-> steps, totalDuration |-> totalDuration, arrivalTime |-> currentTime]

\* "If arrival > deadline": for a duration the deadline is the start plus the duration
ArrivalAfterDeadline(timeline, tc) ==
    IF tc.type = "duration"
    THEN timeline.totalDuration > tc.value * PerMinute
    ELSE GetTime(timeline.arrivalTime) > GetTime(tc.value)

\* the time the constraint allows from the start of the timeline, in sixtieths
\* of a minute
AvailableTime(timeline, tc) ==
    IF tc.type = "duration"
    THEN tc.value * PerMinute
    ELSE FloorMulDiv(PerMinute, GetTime(tc.value) - GetTime(timeline.steps[1].startTime),
                     TicksPerMinute)

\* the buffer realized by the timeline: the available time it leaves unused
RealizedBuffer(timeline, tc) == AvailableTime(timeline, tc) - timeline.totalDuration

TightPercent == 5

BufferIsTightInclusive(buffer, available) == buffer * 100 <= TightPercent * available

\* "If buffer < 5%"
BufferIsTight(buffer, available) == buffer * 100 < TightPercent * available

\* Algorithm Flow, step 9
CheckFeasibilityOf(timeline, tc) ==
    IF ArrivalAfterDeadline(timeline, tc) THEN "impossible"
    ELSE IF BufferIsTight(RealizedBuffer(timeline, tc), AvailableTime(timeline, tc))
         THEN "tight"
         ELSE "feasible"

\* const feasibility = checkFeasibility(timeline, request.timeConstraint); return
CheckFeasibility ==
    /\ pc = "checkFeasibility"
    /\ feasibility' = CheckFeasibilityOf(Timeline, timeConstraint)
    /\ pc' = "done"
    /\ UNCHANGED <<parseVars, findStopsVars, chatVars, voiceVars, console, route, legIndex, fuelVars, now, timeConstraint, tasks, timeBudget,
                   steps, currentTime, totalDuration, thrown>>

NextPlan ==
    \/ CalculateTimeBudget
    \/ BuildTimelineDrive
    \/ BuildTimelineDriveAndStop
    \/ BuildTimelineNoTask
    \/ BuildTimelineReturn
    \/ BuildTimelineNoSteps
    \/ CheckFeasibility

SpecPlan == InitPlan /\ [][NextPlan]_vars

-----------------------------------------------------------------------------
(* parseTimeConstrainedRequest (server/TESTING_GUIDE.md, "Time Constraint    *)
(* Parser"): parseTimeConstraint and extractTasks.                           *)
(*                                                                           *)
(* Text.  A message is a sequence of words separated by single spaces, and   *)
(* the regular expressions are matched word by word.  A word is either       *)
(* letters (text) or a number literal: digits, an optional ":MM" and an      *)
(* optional am/pm joined to it.  The words of the messages are chosen so     *)
(* that no keyword of a pattern occurs inside a longer word.                 *)
(* Time.  A Date is its count of seconds since the epoch, in a time zone     *)
(* without daylight saving; new Date() and Date.now() of one call read the   *)
(* same instant.                                                             *)

\* a word of letters
Word(w) == [text |-> w, digits |-> 0 - 1, minute |-> 0 - 1, meridiem |-> ""]

\* a number literal: digits, digits:MM, digits(am|pm), digits:MM(am|pm);
\* m = -1 stands for no ":MM", mer = "" for no am/pm
Literal(d, m, mer) == [text |-> "", digits |-> d, minute |-> m, meridiem |-> mer]

Words(ws) == [k \in DOMAIN ws |-> Word(ws[k])]

IsLiteral(token) == token.digits >= 0

\* String.prototype.toLowerCase, on the words that have a capital letter
Capitals ==
    [Gym |-> "gym", Pick |-> "pick", Drop |-> "drop", Get |-> "get",
     Supermarket |-> "supermarket", Chinese |-> "chinese",
     Restaurant |-> "restaurant", Post |-> "post", Pharmacy |-> "pharmacy",
     Gas |-> "gas", Bank |-> "bank"]

ToLowerCase(w) == IF w \in DOMAIN Capitals THEN Capitals[w] ELSE w

\* toLowerCase of a piece of text
LowerText(tokens) ==
    [k \in DOMAIN tokens |-> [tokens[k] EXCEPT !.text = ToLowerCase(@)]]

\* the words ws stand in msg from position i on, case-insensitively
WordsAt(msg, i, ws) ==
    /\ i >= 1
    /\ i + Len(ws) - 1 <= Len(msg)
    /\ \A k \in 1..Len(ws) : ToLowerCase(msg[i + k - 1].text) = ws[k]

\* the smallest member of a set of positions, 0 if there is none
FirstOf(positions) ==
    IF positions = {} THEN 0
    ELSE CHOOSE i \in positions : \A j \in positions : i <= j

\* --- the messages ---

MaxPhrases == 2   \* phrases of a message

Phrases ==
    { Words(<<"in">>) \o <<Literal(2, 0 - 1, "")>> \o Words(<<"hours">>),
      Words(<<"by">>) \o <<Literal(5, 0 - 1, "pm")>>,
      Words(<<"by">>) \o <<Literal(5, 0 - 1, "")>>,
      Words(<<"by">>) \o <<Literal(50, 0 - 1, "")>>,
      Words(<<"arrive", "at", "home", "by">>) \o <<Literal(5, 0 - 1, "")>>,
      Words(<<"pick", "up", "the", "kids">>),
      Words(<<"get", "groceries">>),
      Words(<<"chinese", "restaurant">>),
      Words(<<"stop", "at", "grocery", "store">>),
      Words(<<"go", "to", "the", "gym">>),
      Words(<<"go", "to", "the", "Gym">>),
      Words(<<"stop", "at", "the", "library">>) }

\* what joins two phrases: a space, or " and "
Joiners == {<<>>, Words(<<"and">>)}

RECURSIVE MessagesOf(_)
\* the messages of exactly n phrases
MessagesOf(n) ==
    IF n = 0 THEN {<<>>}
    ELSE IF n = 1 THEN Phrases
    ELSE {m \o j \o p : m \in MessagesOf(n - 1), j \in Joiners, p \in Phrases}

Messages == UNION {MessagesOf(n) : n \in 0..MaxPhrases}

\* new Date() at the time of the call: 04:00, 15:00 and 18:00 of day 1
ParseClocks == {100800, 140400, 151200}

\* --- Date ---

SecondsPerDay == 86400

\* getHours()
GetHours(date) == (date % SecondsPerDay) \div 3600

\* date.setHours(hours, minutes, 0, 0)
SetHours(date, hours, minutes) ==
    date - (date % SecondsPerDay) + hours * 3600 + minutes * 60

\* date.setDate(date.getDate() + 1)
NextDate(date) == date + SecondsPerDay

\* --- parseTimeConstraint ---

HourUnits == {"hours", "hour", "hrs", "hr"}
MinuteUnits == {"minutes", "minute", "mins", "min"}

\* /in\s+(\d+)\s*(hours?|hrs?|minutes?|mins?)/i matches from word i on
DurationPatternAt(msg, i) ==
    /\ WordsAt(msg, i, <<"in">>)
    /\ i + 2 <= Len(msg)
    /\ IsLiteral(msg[i + 1]) /\ msg[i + 1].minute < 0 /\ msg[i + 1].meridiem = ""
    /\ ToLowerCase(msg[i + 2].text) \in HourUnits \cup MinuteUnits

\* message.match(durationPattern): the position of the leftmost match, 0 for null
DurationMatch(msg) == FirstOf({i \in DOMAIN msg : DurationPatternAt(msg, i)})

\* (arrive\s+at|be\s+at|get\s+to) at word i
ArrivalIntroAt(msg, i) ==
    \/ WordsAt(msg, i, <<"arrive", "at">>)
    \/ WordsAt(msg, i, <<"be", "at">>)
    \/ WordsAt(msg, i, <<"get", "to">>)

\* by\s+(\d{1,2})(?::(\d{2}))?\s*(am|pm)? with "by" at word j
ByLiteralAt(msg, j) ==
    /\ WordsAt(msg, j, <<"by">>)
    /\ j + 1 <= Len(msg)
    /\ IsLiteral(msg[j + 1])

\* the word "by" that ends (.+?) for the arrival pattern starting at word i:
\* the first "by <literal>" with at least one word between, 0 if none
ArrivalByOf(msg, i) ==
    FirstOf({j \in DOMAIN msg : j >= i + 3 /\ ByLiteralAt(msg, j)})

\* message.match(arrivalPattern): [intro, by], intro = 0 for null
ArrivalMatch(msg) ==
    LET i == FirstOf({k \in DOMAIN msg :
                        ArrivalIntroAt(msg, k) /\ ArrivalByOf(msg, k) # 0})
    IN  [intro |-> i, by |-> IF i = 0 THEN 0 ELSE ArrivalByOf(msg, i)]

\* /(?:by|before)\s+(\d{1,2})(?::(\d{2}))?\s*(am|pm)?/i from word i on
DeadlinePatternAt(msg, i) ==
    /\ WordsAt(msg, i, <<"by">>) \/ WordsAt(msg, i, <<"before">>)
    /\ i + 1 <= Len(msg)
    /\ IsLiteral(msg[i + 1])

\* message.match(deadlinePattern): the position of the leftmost match, 0 for null
DeadlineMatch(msg) == FirstOf({i \in DOMAIN msg : DeadlinePatternAt(msg, i)})

\* \s*(am|pm)? after the literal at word k: joined to it, or the next word
MeridiemAt(msg, k) ==
    IF msg[k].meridiem # "" THEN msg[k].meridiem
    ELSE IF k + 1 <= Len(msg) /\ ToLowerCase(msg[k + 1].text) \in {"am", "pm"}
         THEN ToLowerCase(msg[k + 1].text)
         ELSE ""

\* the last word of the match of a time literal at word k
LiteralEnd(msg, k) ==
    IF msg[k].meridiem = "" /\ MeridiemAt(msg, k) # "" THEN k + 1 ELSE k

\* const minutes = match[..] ? parseInt(match[..]) : 0
MinutesOf(token) == IF token.minute < 0 THEN 0 ELSE token.minute

\* "Convert to 24-hour format" of the arrival pattern (lines 281-285)
ArrivalHours(hours, meridiem) ==
    IF meridiem = "pm" /\ hours # 12 THEN hours + 12
    ELSE IF meridiem = "am" /\ hours = 12 THEN 0
    ELSE hours

\* "Convert to 24-hour format" of the deadline pattern (lines 312-322)
DeadlineHours(hours, meridiem, clock) ==
    IF meridiem = "pm" /\ hours # 12 THEN hours + 12
    ELSE IF meridiem = "am" /\ hours = 12 THEN 0
    ELSE IF meridiem = "" /\ hours < 12
         THEN IF GetHours(clock) >= hours THEN hours + 12 ELSE hours
         ELSE hours

\* const t = new Date(); t.setHours(hours, minutes, 0, 0);
\* if (t.getTime() < Date.now()) t.setDate(t.getDate() + 1)
TodayOrTomorrow(hours, minutes, clock) ==
    LET t == SetHours(clock, hours, minutes)
    IN  IF t < clock THEN NextDate(t) ELSE t

\* the return value for no match
NoConstraint == [type |-> "null", value |-> 0, originalText |-> <<>>, flexibility |-> ""]

DurationConstraint(msg) ==
    LET i == DurationMatch(msg)
        value == msg[i + 1].digits
        unit == ToLowerCase(msg[i + 2].text)
    IN  [type |-> "duration",
         value |-> IF unit \in HourUnits THEN value * 60 ELSE value,
         originalText |-> SubSeq(msg, i, i + 2),
         flexibility |-> "hard"]

ArrivalConstraint(msg, clock) ==
    LET m == ArrivalMatch(msg)
        literal == msg[m.by + 1]
        hours == ArrivalHours(literal.digits, MeridiemAt(msg, m.by + 1))
    IN  [type |-> "arrival_time",
         value |-> TodayOrTomorrow(hours, MinutesOf(literal), clock),
         originalText |-> SubSeq(msg, m.intro, LiteralEnd(msg, m.by + 1)),
         flexibility |-> "hard"]

DeadlineConstraint(msg, clock) ==
    LET i == DeadlineMatch(msg)
        literal == msg[i + 1]
        hours == DeadlineHours(literal.digits, MeridiemAt(msg, i + 1), clock)
    IN  [type |-> "deadline",
         value |-> TodayOrTomorrow(hours, MinutesOf(literal), clock),
         originalText |-> SubSeq(msg, i, LiteralEnd(msg, i + 1)),
         flexibility |-> "hard"]

ParseTimeConstraintDeadlineFirst(msg, clock) ==
    IF DurationMatch(msg) # 0 THEN DurationConstraint(msg)
    ELSE IF DeadlineMatch(msg) # 0 THEN DeadlineConstraint(msg, clock)
    ELSE IF ArrivalMatch(msg).intro # 0 THEN ArrivalConstraint(msg, clock)
    ELSE NoConstraint

\* parseTimeConstraint(message)
ParseTimeConstraintOf(msg, clock) ==
    IF DurationMatch(msg) # 0 THEN DurationConstraint(msg)
    ELSE IF ArrivalMatch(msg).intro # 0 THEN ArrivalConstraint(msg, clock)
    ELSE IF DeadlineMatch(msg) # 0 THEN DeadlineConstraint(msg, clock)
    ELSE NoConstraint

\* --- extractTasks ---

\* A pattern of taskPatterns is a sequence of groups; a group is a list of
\* alternatives in the order the regular expression tries them, each a
\* sequence of words (\s+ between words), and may be optional ((...)?).
One(alts) == [optional |-> FALSE, alternatives |-> alts]
Optional(alts) == [optional |-> TRUE, alternatives |-> alts]

taskPatterns ==
    << [pattern |-> << One(<< <<"pick", "up">> >>), Optional(<< <<"the">> >>),
                       One(<< <<"kids">>, <<"children">>, <<"child">>, <<"son">>,
                              <<"daughter">> >>) >>,
        category |-> "school", priority |-> "high", estimatedDuration |-> 5,
        description |-> <<"Pick", "up", "kids">>],
       [pattern |-> << One(<< <<"drop", "off">> >>), Optional(<< <<"the">> >>),
                       One(<< <<"kids">>, <<"children">>, <<"child">>, <<"son">>,
                              <<"daughter">> >>) >>,
        category |-> "school", priority |-> "high", estimatedDuration |-> 5,
        description |-> <<"Drop", "off", "kids">>],
       [pattern |-> << One(<< <<"get">>, <<"pick", "up">>, <<"buy">>, <<"grab">> >>),
                       Optional(<< <<"some">> >>),
                       One(<< <<"groceries">>, <<"food">>, <<"supplies">> >>) >>,
        category |-> "grocery", priority |-> "medium", estimatedDuration |-> 20,
        description |-> <<"Get", "groceries">>],
       [pattern |-> << One(<< <<"go", "to">>, <<"stop", "at">>, <<"visit">>,
                              <<"route", "me", "to">>, <<"route", "to">> >>),
                       Optional(<< <<"the">> >>),
                       One(<< <<"supermarket">>, <<"grocery", "store">>,
                              <<"market">> >>) >>,
        category |-> "grocery", priority |-> "medium", estimatedDuration |-> 20,
        description |-> <<"Supermarket">>],
       [pattern |-> << One(<< <<"chinese", "restaurant">>, <<"chinese", "food">>,
                              <<"chinese">> >>) >>,
        category |-> "restaurant", priority |-> "medium", estimatedDuration |-> 15,
        description |-> <<"Chinese", "restaurant">>],
       [pattern |-> << One(<< <<"restaurant">>, <<"food">>, <<"dinner">>,
                              <<"lunch">> >>) >>,
        category |-> "restaurant", priority |-> "medium", estimatedDuration |-> 15,
        description |-> <<"Restaurant">>],
       [pattern |-> << One(<< <<"get">>, <<"grab">>, <<"pick", "up">> >>),
                       Optional(<< <<"some">> >>), One(<< <<"coffee">> >>) >>,
        category |-> "coffee", priority |-> "low", estimatedDuration |-> 10,
        description |-> <<"Get", "coffee">>],
       [pattern |-> << One(<< <<"post", "office">>, <<"mail", "package">>,
                              <<"send", "package">> >>) >>,
        category |-> "post_office", priority |-> "medium", estimatedDuration |-> 10,
        description |-> <<"Post", "office">>],
       [pattern |-> << One(<< <<"pharmacy">>, <<"pick", "up", "medicine">>,
                              <<"prescription">> >>) >>,
        category |-> "pharmacy", priority |-> "high", estimatedDuration |-> 10,
        description |-> <<"Pharmacy">>],
       [pattern |-> << One(<< <<"gas", "station">>, <<"get", "gas">>,
                              <<"fill", "up">> >>) >>,
        category |-> "gas", priority |-> "medium", estimatedDuration |-> 5,
        description |-> <<"Gas", "station">>],
       [pattern |-> << One(<< <<"bank">>, <<"atm">>, <<"withdraw", "money">> >>) >>,
        category |-> "bank", priority |-> "medium", estimatedDuration |-> 15,
        description |-> <<"Bank">>],
       [pattern |-> << One(<< <<"gym">>, <<"workout">>, <<"exercise">> >>) >>,
        category |-> "gym", priority |-> "medium", estimatedDuration |-> 60,
        description |-> <<"Gym">>] >>

\* the words ws stand from position i on in the lower-cased words of a message
TextAt(lower, i, ws) ==
    /\ i + Len(ws) - 1 <= Len(lower)
    /\ \A k \in 1..Len(ws) : lower[i + k - 1] = ws[k]

RECURSIVE MatchGroups(_, _, _, _)
RECURSIVE TryAlternatives(_, _, _, _, _)

\* the groups g.. of pattern p match from word i on: the position after the
\* match, 0 if there is none
MatchGroups(p, g, lower, i) ==
    IF g > Len(p) THEN i ELSE TryAlternatives(p, g, lower, i, 1)

\* the alternatives a.. of group g, in order; an optional group is skipped
\* when no alternative leads to a match
TryAlternatives(p, g, lower, i, a) ==
    IF a > Len(p[g].alternatives)
    THEN IF p[g].optional THEN MatchGroups(p, g + 1, lower, i) ELSE 0
    ELSE LET alt == p[g].alternatives[a]
             rest == IF TextAt(lower, i, alt)
                     THEN MatchGroups(p, g + 1, lower, i + Len(alt))
                     ELSE 0
         IN  IF rest # 0 THEN rest ELSE TryAlternatives(p, g, lower, i, a + 1)

\* the words a match of pattern k can start with: the first words of the
\* alternatives of its first group (no first group is optional)
StartWords ==
    [k \in DOMAIN taskPatterns |->
        {taskPatterns[k].pattern[1].alternatives[a][1] :
            a \in DOMAIN taskPatterns[k].pattern[1].alternatives}]

RECURSIVE MatchAll(_, _, _, _)
\* message.match(new RegExp(pattern.pattern, 'gi')) for pattern k: the matched
\* texts from word i on, left to right, without overlap
MatchAll(k, msg, lower, i) ==
    IF i > Len(msg) THEN <<>>
    ELSE LET e == IF lower[i] \in StartWords[k]
                  THEN MatchGroups(taskPatterns[k].pattern, 1, lower, i)
                  ELSE 0
         IN  IF e # 0
             THEN <<SubSeq(msg, i, e - 1)>> \o MatchAll(k, msg, lower, e)
             ELSE MatchAll(k, msg, lower, i + 1)

\* the task pushed for a match of a pattern
SpecificTaskWithLocation(pattern, match) ==
    [description |-> pattern.description,
     location |-> match,
     category |-> pattern.category,
     estimatedDuration |-> pattern.estimatedDuration,
     priority |-> pattern.priority,
     keywords |-> <<match>>]

SpecificTask(pattern, match) ==
    [description |-> pattern.description,
     location |-> <<>>,
     category |-> pattern.category,
     estimatedDuration |-> pattern.estimatedDuration,
     priority |-> pattern.priority,
     keywords |-> <<match>>]

RECURSIVE PushMatches(_, _, _, _, _)
\* for (const match of matches), matches k..: skip a text already in
\* matchedTexts, else add it and push a task
PushMatches(pattern, matches, k, texts, ts) ==
    IF k > Len(matches) THEN [matchedTexts |-> texts, tasks |-> ts]
    ELSE LET matchLower == LowerText(matches[k])
         IN  IF matchLower \in texts
             THEN PushMatches(pattern, matches, k + 1, texts, ts)
             ELSE PushMatches(pattern, matches, k + 1, texts \cup {matchLower},
                              Append(ts, SpecificTask(pattern, matches[k])))

\* the words of a message, lower-cased (the patterns have the flag i)
LowerWords(msg) == [i \in DOMAIN msg |-> ToLowerCase(msg[i].text)]

RECURSIVE ForEachPattern(_, _, _, _, _)
\* for (const pattern of taskPatterns), patterns k..
ForEachPattern(msg, lower, k, texts, ts) ==
    IF k > Len(taskPatterns) THEN [matchedTexts |-> texts, tasks |-> ts]
    ELSE LET pushed == PushMatches(taskPatterns[k], MatchAll(k, msg, lower, 1), 1,
                                   texts, ts)
         IN  ForEachPattern(msg, lower, k + 1, pushed.matchedTexts, pushed.tasks)

\* the letters of the words that a description or a location can hold
Spelling ==
    [pick |-> <<"p","i","c","k">>, up |-> <<"u","p">>,
     kids |-> <<"k","i","d","s">>, drop |-> <<"d","r","o","p">>,
     off |-> <<"o","f","f">>, get |-> <<"g","e","t">>,
     groceries |-> <<"g","r","o","c","e","r","i","e","s">>,
     supermarket |-> <<"s","u","p","e","r","m","a","r","k","e","t">>,
     chinese |-> <<"c","h","i","n","e","s","e">>,
     restaurant |-> <<"r","e","s","t","a","u","r","a","n","t">>,
     coffee |-> <<"c","o","f","f","e","e">>, post |-> <<"p","o","s","t">>,
     office |-> <<"o","f","f","i","c","e">>,
     pharmacy |-> <<"p","h","a","r","m","a","c","y">>,
     gas |-> <<"g","a","s">>, station |-> <<"s","t","a","t","i","o","n">>,
     bank |-> <<"b","a","n","k">>, gym |-> <<"g","y","m">>,
     the |-> <<"t","h","e">>, grocery |-> <<"g","r","o","c","e","r","y">>,
     store |-> <<"s","t","o","r","e">>, atm |-> <<"a","t","m">>,
     library |-> <<"l","i","b","r","a","r","y">>, stop |-> <<"s","t","o","p">>,
     at |-> <<"a","t">>, go |-> <<"g","o">>, to |-> <<"t","o">>,
     visit |-> <<"v","i","s","i","t">>, arrive |-> <<"a","r","r","i","v","e">>,
     home |-> <<"h","o","m","e">>, hours |-> <<"h","o","u","r","s">>,
     minutes |-> <<"m","i","n","u","t","e","s">>,
     before |-> <<"b","e","f","o","r","e">>, and |-> <<"a","n","d">>,
     by |-> <<"b","y">>, in |-> <<"i","n">>]

RECURSIVE LowerChars(_, _)
\* the characters of words 1..k, lower-cased, with one space between words
LowerChars(ws, k) ==
    IF k = 0 THEN <<>>
    ELSE IF k = 1 THEN Spelling[ToLowerCase(ws[1])]
    ELSE LowerChars(ws, k - 1) \o <<" ">> \o Spelling[ToLowerCase(ws[k])]

\* a.toLowerCase().includes(b.toLowerCase()), for texts given as word lists
Includes(a, b) ==
    LET hay == LowerChars(a, Len(a))
        needle == LowerChars(b, Len(b))
    IN  \E i \in 0..(Len(hay) - Len(needle)) :
            SubSeq(hay, i + 1, i + Len(needle)) = needle

\* (stop\s+at|go\s+to|visit) at word i: the position after it, 0 if none
GenericIntroEnd(msg, i) ==
    IF WordsAt(msg, i, <<"stop", "at">>) \/ WordsAt(msg, i, <<"go", "to">>) THEN i + 2
    ELSE IF WordsAt(msg, i, <<"visit">>) THEN i + 1
    ELSE 0

\* (?:\s+and|\s+by|\s+in) at word k
GenericEndAt(msg, k) ==
    k <= Len(msg) /\ ToLowerCase(msg[k].text) \in {"and", "by", "in"}

\* ([a-zA-Z\s]+?)(?:\s+and|\s+by|\s+in|$) with the location starting at word
\* j: the last word of the shortest location, 0 if there is none
LocationEnd(msg, j) ==
    IF j > Len(msg) THEN 0
    ELSE LET k == FirstOf({e \in j..Len(msg) :
                             e = Len(msg) \/ GenericEndAt(msg, e + 1)})
         IN  IF \A e \in j..k : ~IsLiteral(msg[e]) THEN k ELSE 0

\* the match of genericStopPattern that starts at word i: (?:the\s+)? takes
\* "the" when a location follows it, and leaves it to the location otherwise
GenericMatchAt(msg, i) ==
    LET j == GenericIntroEnd(msg, i)
        afterThe == IF j # 0 /\ WordsAt(msg, j, <<"the">>) THEN LocationEnd(msg, j + 1)
                    ELSE 0
        from == IF afterThe # 0 THEN j + 1 ELSE j
        to == IF afterThe # 0 THEN afterThe
              ELSE IF j # 0 THEN LocationEnd(msg, j) ELSE 0
    IN  [start |-> IF to = 0 THEN 0 ELSE i,
         from |-> from,
         to |-> to,
         end |-> IF to # 0 /\ GenericEndAt(msg, to + 1) THEN to + 1 ELSE to]

\* genericStopPattern.exec(message) with lastIndex after word `last`: the
\* leftmost match, start = 0 for null
GenericExec(msg, last) ==
    LET i == FirstOf({k \in DOMAIN msg : k > last /\ GenericMatchAt(msg, k).start # 0})
    IN  IF i = 0 THEN [start |-> 0, from |-> 0, to |-> 0, end |-> 0]
        ELSE GenericMatchAt(msg, i)

\* const alreadyExists = tasks.some(t => ...)
AlreadyExists(ts, location) ==
    \E k \in DOMAIN ts :
        \/ Includes(ts[k].description, location)
        \/ Includes(location, ts[k].description)

GenericTask(location, match) ==
    [description |-> location,
     location |-> location,
     category |-> "generic",
     estimatedDuration |-> 10,
     priority |-> "medium",
     keywords |-> <<match>>]

\* the text of words: genericMatch[2].trim()
TextOf(tokens) == [k \in DOMAIN tokens |-> tokens[k].text]

\* --- the request ---

InitParse ==
    /\ message \in Messages
    /\ now \in ParseClocks
    /\ pc = "parseTimeConstraint"
    /\ timeConstraint = NoConstraint
    /\ tasks = <<>>
    /\ matchedTexts = {}
    /\ lastIndex = 0
    /\ clockReads = <<>>
    /\ route = <<>>
    /\ legIndex = 0
    /\ fuelLevel = 0
    /\ vehicleRange = 0
    /\ minimumFuelThreshold = 0
    /\ currentFuel = 0
    /\ totalDistanceCovered = 0
    /\ remainingLegDistance = 0
    /\ stops = <<>>
    /\ stopLegs = <<>>
    /\ timeBudget = NoBudget
    /\ steps = <<>>
    /\ currentTime = 0
    /\ totalDuration = 0
    /\ feasibility = ""
    /\ thrown = ""
    /\ console = <<>>
    /\ tripRequest = NoTripRequest
    /\ response = NoResponse
    /\ ChatIdle
    /\ VoiceIdle

\* const timeConstraint = parseTimeConstraint(message)
ParseTimeConstraint ==
    /\ pc = "parseTimeConstraint"
    /\ timeConstraint' = ParseTimeConstraintOf(message, now)
    /\ pc' = "taskPatterns"
    /\ UNCHANGED <<route, legIndex, fuelVars, now, tasks, timeBudget, steps, currentTime,
                   totalDuration, feasibility, thrown, console, parseVars,
                   findStopsVars, chatVars, voiceVars>>

\* for (const pattern of taskPatterns) { ... }: the whole loop
ExtractTasksPatterns ==
    /\ pc = "taskPatterns"
    /\ LET pushed == ForEachPattern(message, LowerWords(message), 1, matchedTexts, tasks)
       IN  /\ matchedTexts' = pushed.matchedTexts
           /\ tasks' = pushed.tasks
    /\ pc' = "genericStopPattern"
    /\ UNCHANGED <<route, legIndex, fuelVars, now, timeConstraint, timeBudget, steps,
                   currentTime, totalDuration, feasibility, thrown, console, message,
                   lastIndex, clockReads, findStopsVars, chatVars, voiceVars>>

\* while ((genericMatch = genericStopPattern.exec(message)) !== null): one match
ExtractTasksGeneric ==
    LET genericMatch == GenericExec(message, lastIndex)
        location == TextOf(SubSeq(message, genericMatch.from, genericMatch.to))
    IN  /\ pc = "genericStopPattern"
        /\ genericMatch.start # 0
        /\ tasks' = IF AlreadyExists(tasks, location) THEN tasks
                    ELSE Append(tasks,
                           GenericTask(location,
                              SubSeq(message, genericMatch.start, genericMatch.end)))
        /\ lastIndex' = genericMatch.end
        /\ UNCHANGED <<pc, route, legIndex, fuelVars, now, timeConstraint, timeBudget,
                       steps, currentTime, totalDuration, feasibility, thrown, console,
                       message, matchedTexts, clockReads, findStopsVars, chatVars, voiceVars>>

\* exec returns null (and resets lastIndex); return tasks
ExtractTasksReturn ==
    /\ pc = "genericStopPattern"
    /\ GenericExec(message, lastIndex).start = 0
    /\ lastIndex' = 0
    /\ pc' = "parsed"
    /\ UNCHANGED <<route, legIndex, fuelVars, planVars, message, matchedTexts,
                   clockReads, findStopsVars, chatVars, voiceVars>>

NextParse ==
    \/ ParseTimeConstraint
    \/ ExtractTasksPatterns
    \/ ExtractTasksGeneric
    \/ ExtractTasksReturn

SpecParse == InitParse /\ [][NextParse]_vars

-----------------------------------------------------------------------------
(* The clock.  parseTimeConstraint and calculateTimeBudget take no clock      *)
(* argument: each new Date() and each Date.now() reads the system clock.  In  *)
(* SpecParse and SpecPlan all readings of a request return the same instant; *)
(* here the clock may advance between one reading and the next.  now is the  *)
(* instant at which the request starts.                                      *)

\* seconds by which the clock may have advanced at a reading
ClockOffsets == {0, 1, 2}

\* the start of the request: 04:59:59, 16:59:59 and 23:59:59 of day 1
ClockStarts == {104399, 147599, 172799}

ClockMessages ==
    { Words(<<"by">>) \o <<Literal(5, 0 - 1, "")>>,
      Words(<<"by">>) \o <<Literal(5, 0 - 1, "pm")>>,
      Words(<<"arrive", "at", "home", "by">>) \o <<Literal(5, 0 - 1, "pm")>>,
      Words(<<"in">>) \o <<Literal(2, 0 - 1, "")>> \o Words(<<"hours">>) }

\* the deadline branch reads the clock for now.getHours() (line 318) only for
\* a literal without am/pm whose hour is below 12
ReadsHours(msg) ==
    LET k == DeadlineMatch(msg) + 1
    IN  MeridiemAt(msg, k) = "" /\ msg[k].digits < 12

\* how many times parseTimeConstraint(msg) reads the clock
ReadCount(msg) ==
    IF DurationMatch(msg) # 0 THEN 0
    ELSE IF ArrivalMatch(msg).intro # 0 THEN 2
    ELSE IF DeadlineMatch(msg) # 0 THEN (IF ReadsHours(msg) THEN 3 ELSE 2)
    ELSE 0

\* n successive readings of a clock that shows at least start
ClockReadings(start, n) ==
    {r \in [1..n -> {start + o : o \in ClockOffsets}] :
        \A k \in 1..(n - 1) : r[k] <= r[k + 1]}

\* const t = new Date(); t.setHours(hours, minutes, 0, 0);
\* if (t.getTime() < Date.now()) t.setDate(t.getDate() + 1)
TodayOrTomorrowReads(hours, minutes, created, compared) ==
    LET t == SetHours(created, hours, minutes)
    IN  IF t < compared THEN NextDate(t) ELSE t

\* the arrival branch: new Date() (line 287), Date.now() (line 290)
ArrivalConstraintReads(msg, reads) ==
    LET m == ArrivalMatch(msg)
        literal == msg[m.by + 1]
        hours == ArrivalHours(literal.digits, MeridiemAt(msg, m.by + 1))
    IN  [type |-> "arrival_time",
         value |-> TodayOrTomorrowReads(hours, MinutesOf(literal), reads[1], reads[2]),
         originalText |-> SubSeq(msg, m.intro, LiteralEnd(msg, m.by + 1)),
         flexibility |-> "hard"]

\* the deadline branch: new Date() for getHours (line 318) where it is read,
\* new Date() (line 324), Date.now() (line 327)
DeadlineConstraintReads(msg, reads) ==
    LET i == DeadlineMatch(msg)
        literal == msg[i + 1]
        n == Len(reads)
        hours == DeadlineHours(literal.digits, MeridiemAt(msg, i + 1), reads[1])
    IN  [type |-> "deadline",
         value |-> TodayOrTomorrowReads(hours, MinutesOf(literal),
                                        reads[n - 1], reads[n]),
         originalText |-> SubSeq(msg, i, LiteralEnd(msg, i + 1)),
         flexibility |-> "hard"]

\* parseTimeConstraint(message), the clock showing reads[k] at its k-th reading
ParseTimeConstraintReads(msg, reads) ==
    IF DurationMatch(msg) # 0 THEN DurationConstraint(msg)
    ELSE IF ArrivalMatch(msg).intro # 0 THEN ArrivalConstraintReads(msg, reads)
    ELSE IF DeadlineMatch(msg) # 0 THEN DeadlineConstraintReads(msg, reads)
    ELSE NoConstraint

\* the latest reading of the clock, or the start of the request
LastRead == IF clockReads = <<>> THEN now ELSE clockReads[Len(clockReads)]

InitClock ==
    /\ message \in ClockMessages
    /\ now \in ClockStarts
    /\ route = <<PlanLeg(1, 1800)>>
    /\ pc = "parseTimeConstraint"
    /\ timeConstraint = NoConstraint
    /\ tasks = <<>>
    /\ matchedTexts = {}
    /\ lastIndex = 0
    /\ clockReads = <<>>
    /\ legIndex = 0
    /\ fuelLevel = 0
    /\ vehicleRange = 0
    /\ minimumFuelThreshold = 0
    /\ currentFuel = 0
    /\ totalDistanceCovered = 0
    /\ remainingLegDistance = 0
    /\ stops = <<>>
    /\ stopLegs = <<>>
    /\ timeBudget = NoBudget
    /\ steps = <<>>
    /\ currentTime = 0
    /\ totalDuration = 0
    /\ feasibility = ""
    /\ thrown = ""
    /\ console = <<>>
    /\ tripRequest = NoTripRequest
    /\ response = NoResponse
    /\ ChatIdle
    /\ VoiceIdle

\* const timeConstraint = parseTimeConstraint(message)
ClockParseTimeConstraint ==
    /\ pc = "parseTimeConstraint"
    /\ \E reads \in ClockReadings(now, ReadCount(message)) :
          /\ timeConstraint' = ParseTimeConstraintReads(message, reads)
          /\ clockReads' = reads
    /\ pc' = "calculateTimeBudget"
    /\ UNCHANGED <<route, legIndex, fuelVars, now, tasks, timeBudget, steps, currentTime,
                   totalDuration, feasibility, thrown, console, message, matchedTexts,
                   lastIndex, findStopsVars, chatVars, voiceVars>>

\* calculateTimeBudget(route, timeConstraint, tasks): const now = new Date()
ClockCalculateTimeBudget ==
    /\ pc = "calculateTimeBudget"
    /\ \E o \in ClockOffsets :
          /\ timeBudget' = CalculateTimeBudgetOf(route, timeConstraint, tasks, LastRead + o)
          /\ clockReads' = Append(clockReads, LastRead + o)
    /\ pc' = "planned"
    /\ UNCHANGED <<route, legIndex, fuelVars, now, timeConstraint, tasks, steps,
                   currentTime, totalDuration, feasibility, thrown, console, message,
                   matchedTexts, lastIndex, findStopsVars, chatVars, voiceVars>>

NextClock == ClockParseTimeConstraint \/ ClockCalculateTimeBudget

SpecClock == InitClock /\ [][NextClock]_vars

-----------------------------------------------------------------------------
(* POST /api/chat and POST /api/plan-route (server/gemini.ts) over MemStorage *)
(* (server/storage.ts), for one conversation: the client sends its messages   *)
(* one after the other, each with the tripRequestId of the previous answer.   *)
(* parseUserRequest, generateConversationalResponse and getDirections are     *)
(* calls to outside services: what they return is an input.  Places, routes   *)
(* and preferences are numbered; a message's content is its number.           *)

MaxMessages == 3   \* messages of a conversation

\* what parseUserRequest may return: each field present or left out
TripParametersInputs ==
    [origin : {Undefined, 1}, destination : {Undefined, 2},
     fuelLevel : {Undefined, 5}, vehicleRange : {Undefined, 300},
     preferences : {Undefined, 1}]

\* x ?? fallback
Coalesce(x, fallback) == IF x = Null \/ x = Undefined THEN fallback ELSE x

\* object.key, undefined for a key the object does not have
Field(object, key) == IF key \in DOMAIN object THEN object[key] ELSE Undefined

\* { ...existing, ...updates }: every own key of updates is copied, also one
\* whose value is undefined
Spread(existing, updates) ==
    [k \in DOMAIN existing \cup DOMAIN updates |->
        IF k \in DOMAIN updates THEN updates[k] ELSE existing[k]]

\* MemStorage.createTripRequest: the stored trip request
CreateTripRequest(id, insertTripRequest) ==
    Spread(Spread([id |-> id], insertTripRequest),
           [fuelLevel |-> Coalesce(Field(insertTripRequest, "fuelLevel"), Null),
            vehicleRange |-> Coalesce(Field(insertTripRequest, "vehicleRange"), Null),
            preferences |-> Coalesce(Field(insertTripRequest, "preferences"), Null),
            route |-> Coalesce(Field(insertTripRequest, "route"), Null),
            stops |-> Coalesce(Field(insertTripRequest, "stops"), Null)])

\* MemStorage.updateTripRequest: the updated trip request
UpdateTripRequest(existing, updates) ==
    Spread(Spread(existing, updates),
           [preferences |-> Coalesce(Field(updates, "preferences"),
                                     existing.preferences)])

\* MemStorage.createMessage: the stored message
CreateMessage(id, insertMessage) ==
    Spread(Spread([id |-> id], insertMessage),
           [tripRequestId |-> Coalesce(Field(insertMessage, "tripRequestId"), Null)])

RECURSIVE SortByTimestamp(_)
\* .sort((a, b) => a.timestamp.localeCompare(b.timestamp)): stable, ascending
SortByTimestamp(ms) ==
    IF ms = <<>> THEN <<>>
    ELSE LET rest == SortByTimestamp(Tail(ms))
             before == SelectSeq(rest, LAMBDA m : m.timestamp < Head(ms).timestamp)
             after == SelectSeq(rest, LAMBDA m : ~(m.timestamp < Head(ms).timestamp))
         IN  before \o <<Head(ms)>> \o after

\* MemStorage.getMessagesByTripId
GetMessagesByTripId(stored, tripRequestId) ==
    SortByTimestamp(SelectSeq(stored, LAMBDA m : m.tripRequestId = tripRequestId))

\* const hasMissingInfo = !tripParameters.origin || !tripParameters.destination
HasMissingInfo(parameters) ==
    parameters.origin = Undefined \/ parameters.destination = Undefined

\* a reading of the server's clock, which may have advanced by a millisecond
ClockReading(last) == {last, last + 1}

InitChat ==
    /\ ChatIdle
    /\ VoiceIdle
    /\ pc = "conversation"
    /\ tripRequest = NoTripRequest
    /\ response = NoResponse
    /\ route = <<>>
    /\ legIndex = 0
    /\ fuelLevel = 0
    /\ vehicleRange = 0
    /\ minimumFuelThreshold = 0
    /\ currentFuel = 0
    /\ totalDistanceCovered = 0
    /\ remainingLegDistance = 0
    /\ stops = <<>>
    /\ stopLegs = <<>>
    /\ now = 0
    /\ timeConstraint = [type |-> "duration", value |-> 0]
    /\ tasks = <<>>
    /\ timeBudget = NoBudget
    /\ steps = <<>>
    /\ currentTime = 0
    /\ totalDuration = 0
    /\ feasibility = ""
    /\ thrown = ""
    /\ console = <<>>
    /\ message = <<>>
    /\ matchedTexts = {}
    /\ lastIndex = 0
    /\ clockReads = <<>>

\* POST /api/chat { message, tripRequestId }, answered with res.json
PostChat ==
    /\ pc = "conversation"
    /\ Len(accepted) < MaxMessages
    /\ \E parameters \in TripParametersInputs :
       \E userTime \in ClockReading(serverClock) :
       \E assistantTime \in ClockReading(userTime) :
          LET tripRequestId == clientTripId
              content == Len(accepted) + 1
              history ==
                  IF tripRequestId # Null
                  THEN LET found == GetMessagesByTripId(messages, tripRequestId)
                       IN  [k \in DOMAIN found |->
                               [role |-> found[k].role, content |-> found[k].content]]
                  ELSE <<>>
              hasMissingInfo == HasMissingInfo(parameters)
              creates == ~hasMissingInfo /\ tripRequestId = Null
              updates == ~hasMissingInfo /\ tripRequestId # Null
              currentTripId ==
                  IF creates THEN Len(tripRequests) + 1 ELSE tripRequestId
              userMessage ==
                  CreateMessage(Len(messages) + 1,
                      [tripRequestId |-> currentTripId, role |-> "user",
                       content |-> content, timestamp |-> userTime])
              assistantMessage ==
                  CreateMessage(Len(messages) + 2,
                      [tripRequestId |-> currentTripId, role |-> "assistant",
                       content |-> 0, timestamp |-> assistantTime])
          IN  /\ conversationHistory' = history
              /\ tripParameters' = parameters
              /\ tripRequests' =
                    IF creates
                    THEN Append(tripRequests,
                           CreateTripRequest(currentTripId,
                              [origin |-> parameters.origin,
                               destination |-> parameters.destination,
                               fuelLevel |-> parameters.fuelLevel,
                               vehicleRange |-> parameters.vehicleRange,
                               preferences |-> parameters.preferences]))
                    ELSE IF updates
                    THEN [tripRequests EXCEPT ![tripRequestId] =
                            UpdateTripRequest(@,
                               [fuelLevel |-> Coalesce(parameters.fuelLevel, Undefined),
                                vehicleRange |-> Coalesce(parameters.vehicleRange, Undefined),
                                preferences |-> Coalesce(parameters.preferences, Undefined)])]
                    ELSE tripRequests
              /\ messages' =
                    IF currentTripId # Null
                    THEN messages \o <<userMessage, assistantMessage>>
                    ELSE messages
              /\ serverClock' = IF currentTripId # Null THEN assistantTime ELSE serverClock
              /\ clientTripId' = currentTripId
              /\ accepted' = Append(accepted, content)
    /\ UNCHANGED <<pc, route, legIndex, fuelVars, planVars, parseVars, findStopsVars,
                   voiceVars>>

\* POST /api/plan-route { tripRequestId }: the selected route is stored
PostPlanRoute ==
    /\ pc = "conversation"
    /\ clientTripId # Null
    /\ tripRequests' =
          [tripRequests EXCEPT ![clientTripId] = UpdateTripRequest(@, [route |-> 1])]
    /\ UNCHANGED <<pc, route, legIndex, fuelVars, planVars, parseVars, findStopsVars,
                   voiceVars, messages, clientTripId, conversationHistory,
                   tripParameters, accepted, serverClock>>

NextChat == PostChat \/ PostPlanRoute

SpecChat == InitChat /\ [][NextChat]_vars

-----------------------------------------------------------------------------
(* The microphone: useMicrophone (client/src/hooks/useMicrophone.ts) with    *)
(* wake-word detection enabled, over startWakeWordDetection and              *)
(* startRecordingWithSilenceDetection (lib/microphoneService).               *)
(*                                                                           *)
(* Time is counted in ticks of 100 ms, the period of the audio-level check.  *)
(* A timer is the number of ticks until it is due, Null when it is not set;  *)
(* time does not pass while a timer is due, and timers due in the same tick  *)
(* fire in any order.  Everything else (the user, the recognizers' events,   *)
(* the microphone permission, getUserMedia) happens at any time.             *)
(* A SpeechRecognition object is "idle", "active" (start() was called) or    *)
(* "ending" (stop() was called or an error occurred, its end event is still  *)
(* to come); start() on an object that is not idle throws, which safeStart   *)
(* catches.  isStarting is false whenever a handler begins, safeStart being  *)
(* synchronous, and is left out.  Each tab runs its handlers one at a time.  *)

MaxListens == 1      \* startListening is not called once this many recognizers exist
MaxDetections == 1   \* detections of the wake word
MaxWakeErrors == 1   \* errors of the wake-word recognizers, all before the first recording

TickMs == 100
SPEECH_END_TIMEOUT == 2000
MAX_RECORDING_TIME == 30000
INITIAL_SPEECH_TIMEOUT == 8000
DETECTION_COOLDOWN == 2000
DetectedDelay == 500        \* onresult: setTimeout(..., 500)
AudioCaptureRetryDelay == 1000
ErrorRetryDelay == 500
OnendRestartDelay == 100
TransitionDelay == 300      \* handleWakeWordDetected: setTimeout(resolve, 300)
WakeRestartDelay == 2000    \* handleTranscript: setTimeout(..., 2000)

Ticks(ms) == ms \div TickMs

\* clearTimeout / a timer that is not set
Due(timer) == timer = 0
CountDown(timer) == IF timer = Null THEN Null ELSE timer - 1

\* recognition.stop()
StopRecognition(r) == [r EXCEPT !.recognition = IF @ = "active" THEN "ending" ELSE @]

\* --- startWakeWordDetection ---

\* safeStart()
SafeStart(w, listening) ==
    IF w.isStopping \/ ~listening THEN w
    ELSE [w EXCEPT !.recognition = IF @ = "idle" THEN "active" ELSE @]

\* startWakeWordDetection(onWakeWordDetected, isListeningRef): the closure
\* after its safeStart()
StartWakeWordDetection(listening) ==
    SafeStart([recognition |-> "idle", isStopping |-> FALSE, cooldown |-> 0,
               detectedTimer |-> Null, onendTimer |-> Null, errorTimer |-> Null,
               detections |-> 0, errors |-> 0],
              listening)

RECURSIVE Detections(_)
Detections(k) == IF k = 0 THEN 0 ELSE Detections(k - 1) + wake[k].detections

RECURSIVE Errors(_)
Errors(k) == IF k = 0 THEN 0 ELSE Errors(k - 1) + wake[k].errors

WakeErrors == {"no-speech", "audio-capture", "not-allowed", "network"}

\* --- startRecordingWithSilenceDetection ---

\* the call up to: await navigator.mediaDevices.getUserMedia(...)
AwaitingUserMedia ==
    [phase |-> "getUserMedia", recognition |-> "idle", hasSpoken |-> FALSE,
     silenceTimer |-> Null, maxRecordingTimer |-> Null, initialSpeechTimer |-> Null,
     silenceCheckInterval |-> Null, streamOpen |-> FALSE, transcribed |-> FALSE,
     reported |-> FALSE, stoppedByHook |-> FALSE, restartTimer |-> Null]

\* lines 181-313: the timers are set and recognition.start() is called
StartedRecording(r) ==
    [r EXCEPT !.phase = "recording", !.recognition = "active", !.streamOpen = TRUE,
              !.silenceCheckInterval = Ticks(TickMs),
              !.maxRecordingTimer = Ticks(MAX_RECORDING_TIME),
              !.initialSpeechTimer = Ticks(INITIAL_SPEECH_TIMEOUT)]

\* clearTimeout of the three timers and clearInterval
ClearTimers(r) ==
    [r EXCEPT !.silenceTimer = Null, !.maxRecordingTimer = Null,
              !.initialSpeechTimer = Null, !.silenceCheckInterval = Null]

\* stopRecording(state)
StopRecording(r) ==
    [StopRecognition(r) EXCEPT !.silenceCheckInterval = Null, !.streamOpen = FALSE,
                               !.stoppedByHook = TRUE]

\* handleStopRecording(): the recordings after it
HandleStopRecording(rs) ==
    IF recordingStateRef # Null
    THEN [rs EXCEPT ![recordingStateRef] = StopRecording(@)]
    ELSE rs

\* --- time ---

WakeTimers(w) == {w.detectedTimer, w.onendTimer, w.errorTimer}
RecordingTimers(r) ==
    {r.silenceTimer, r.maxRecordingTimer, r.initialSpeechTimer, r.silenceCheckInterval,
     r.restartTimer}

Timers ==
    {transitionTimer}
    \cup UNION {WakeTimers(wake[i]) : i \in DOMAIN wake}
    \cup UNION {RecordingTimers(recordings[j]) : j \in DOMAIN recordings}

\* 100 ms pass
Tick ==
    /\ pc = "microphone"
    /\ 0 \notin Timers
    /\ Timers # {Null} \/ \E i \in DOMAIN wake : wake[i].cooldown > 0
    /\ transitionTimer' = CountDown(transitionTimer)
    /\ wake' = [i \in DOMAIN wake |->
                  [wake[i] EXCEPT !.detectedTimer = CountDown(@),
                                  !.onendTimer = CountDown(@),
                                  !.errorTimer = CountDown(@),
                                  !.cooldown = IF @ > 0 THEN @ - 1 ELSE 0]]
    /\ recordings' = [j \in DOMAIN recordings |->
                  [recordings[j] EXCEPT !.silenceTimer = CountDown(@),
                                        !.maxRecordingTimer = CountDown(@),
                                        !.initialSpeechTimer = CountDown(@),
                                        !.silenceCheckInterval = CountDown(@),
                                        !.restartTimer = CountDown(@)]]
    /\ UNCHANGED <<pc, route, legIndex, fuelVars, planVars, parseVars, findStopsVars,
                   chatVars, isListeningRef, isTransitioningRef, wakeWordRecognitionRef,
                   recordingStateRef, isRecording, permissionPending, stopped>>

\* --- useMicrophone ---

InitVoice ==
    /\ VoiceIdle
    /\ ChatIdle
    /\ pc = "microphone"
    /\ tripRequest = NoTripRequest
    /\ response = NoResponse
    /\ route = <<>>
    /\ legIndex = 0
    /\ fuelLevel = 0
    /\ vehicleRange = 0
    /\ minimumFuelThreshold = 0
    /\ currentFuel = 0
    /\ totalDistanceCovered = 0
    /\ remainingLegDistance = 0
    /\ stops = <<>>
    /\ stopLegs = <<>>
    /\ now = 0
    /\ timeConstraint = [type |-> "duration", value |-> 0]
    /\ tasks = <<>>
    /\ timeBudget = NoBudget
    /\ steps = <<>>
    /\ currentTime = 0
    /\ totalDuration = 0
    /\ feasibility = ""
    /\ thrown = ""
    /\ console = <<>>
    /\ message = <<>>
    /\ matchedTexts = {}
    /\ lastIndex = 0
    /\ clockReads = <<>>

\* startListening() up to: await requestMicrophonePermission()
StartListening ==
    /\ pc = "microphone"
    /\ ~permissionPending
    /\ ~isListeningRef
    /\ Len(wake) < MaxListens
    /\ permissionPending' = TRUE
    /\ stopped' = FALSE
    /\ UNCHANGED <<pc, route, legIndex, fuelVars, planVars, parseVars, findStopsVars,
                   chatVars, isListeningRef, isTransitioningRef, wakeWordRecognitionRef,
                   recordingStateRef, isRecording, wake, recordings, transitionTimer>>

\* startListening(): permission granted, wake-word detection is started
PermissionGranted ==
    /\ pc = "microphone"
    /\ permissionPending
    /\ permissionPending' = FALSE
    /\ isListeningRef' = TRUE
    /\ wake' = Append(wake, StartWakeWordDetection(TRUE))
    /\ wakeWordRecognitionRef' = Len(wake) + 1
    /\ UNCHANGED <<pc, route, legIndex, fuelVars, planVars, parseVars, findStopsVars,
                   chatVars, isTransitioningRef, recordingStateRef, isRecording,
                   recordings, transitionTimer, stopped>>

\* startListening(): no permission, return false
PermissionDenied ==
    /\ pc = "microphone"
    /\ permissionPending
    /\ permissionPending' = FALSE
    /\ UNCHANGED <<pc, route, legIndex, fuelVars, planVars, parseVars, findStopsVars,
                   chatVars, isListeningRef, isTransitioningRef, wakeWordRecognitionRef,
                   recordingStateRef, isRecording, wake, recordings, transitionTimer,
                   stopped>>

\* stopListening()
StopListening ==
    /\ pc = "microphone"
    /\ isListeningRef \/ isRecording
    /\ isListeningRef' = FALSE
    /\ wake' = IF wakeWordRecognitionRef # Null
               THEN [wake EXCEPT ![wakeWordRecognitionRef] = StopRecognition(@)]
               ELSE wake
    /\ wakeWordRecognitionRef' = Null
    /\ recordings' = HandleStopRecording(recordings)
    /\ recordingStateRef' = Null
    /\ isRecording' = FALSE
    /\ stopped' = TRUE
    /\ UNCHANGED <<pc, route, legIndex, fuelVars, planVars, parseVars, findStopsVars,
                   chatVars, isTransitioningRef, permissionPending, transitionTimer>>

\* the wake-word recognizer's onresult with a transcript that has the wake word
WakeOnResult(i) ==
    /\ pc = "microphone"
    /\ wake[i].recognition \in {"active", "ending"}
    /\ isListeningRef
    /\ wake[i].cooldown = 0
    /\ Detections(Len(wake)) < MaxDetections
    /\ wake' = [wake EXCEPT ![i] =
                  [StopRecognition(@) EXCEPT !.cooldown = Ticks(DETECTION_COOLDOWN),
                                             !.isStopping = TRUE,
                                             !.detectedTimer = Ticks(DetectedDelay),
                                             !.detections = @ + 1]]
    /\ UNCHANGED <<pc, route, legIndex, fuelVars, planVars, parseVars, findStopsVars,
                   chatVars, isListeningRef, isTransitioningRef, wakeWordRecognitionRef,
                   recordingStateRef, isRecording, recordings, permissionPending,
                   transitionTimer, stopped>>

\* the wake-word recognizer's onerror; the recognizer then ends
WakeOnError(i, error) ==
    /\ pc = "microphone"
    /\ wake[i].recognition = "active"
    /\ Errors(Len(wake)) < MaxWakeErrors
    /\ recordings = <<>>
    /\ wake' = [wake EXCEPT ![i] =
                  [@ EXCEPT !.recognition = "ending",
                            !.errors = @ + 1,
                            !.errorTimer =
                                IF error = "audio-capture" THEN Ticks(AudioCaptureRetryDelay)
                                ELSE IF error = "network" THEN Ticks(ErrorRetryDelay)
                                ELSE Null,
                            !.isStopping = IF error = "not-allowed" THEN TRUE ELSE @]]
    /\ UNCHANGED <<pc, route, legIndex, fuelVars, planVars, parseVars, findStopsVars,
                   chatVars, isListeningRef, isTransitioningRef, wakeWordRecognitionRef,
                   recordingStateRef, isRecording, recordings, permissionPending,
                   transitionTimer, stopped>>

\* the wake-word recognizer's onend, after stop() or an error
WakeOnEnd(i) ==
    /\ pc = "microphone"
    /\ wake[i].recognition = "ending"
    /\ wake[i].onendTimer = Null
    /\ wake' = [wake EXCEPT ![i] =
                  [@ EXCEPT !.recognition = "idle",
                            !.onendTimer = IF isListeningRef /\ ~wake[i].isStopping
                                           THEN Ticks(OnendRestartDelay) ELSE Null]]
    /\ UNCHANGED <<pc, route, legIndex, fuelVars, planVars, parseVars, findStopsVars,
                   chatVars, isListeningRef, isTransitioningRef, wakeWordRecognitionRef,
                   recordingStateRef, isRecording, recordings, permissionPending,
                   transitionTimer, stopped>>

\* onend's setTimeout(() => safeStart(), 100) is due
WakeOnendTimer(i) ==
    /\ pc = "microphone"
    /\ Due(wake[i].onendTimer)
    /\ wake' = [wake EXCEPT ![i] =
                  SafeStart([@ EXCEPT !.onendTimer = Null], isListeningRef)]
    /\ UNCHANGED <<pc, route, legIndex, fuelVars, planVars, parseVars, findStopsVars,
                   chatVars, isListeningRef, isTransitioningRef, wakeWordRecognitionRef,
                   recordingStateRef, isRecording, recordings, permissionPending,
                   transitionTimer, stopped>>

\* onerror's retry timer is due: if (isListeningRef() && !isStarting && !isStopping)
\* safeStart()
WakeErrorTimer(i) ==
    /\ pc = "microphone"
    /\ Due(wake[i].errorTimer)
    /\ wake' = [wake EXCEPT ![i] =
                  SafeStart([@ EXCEPT !.errorTimer = Null], isListeningRef)]
    /\ UNCHANGED <<pc, route, legIndex, fuelVars, planVars, parseVars, findStopsVars,
                   chatVars, isListeningRef, isTransitioningRef, wakeWordRecognitionRef,
                   recordingStateRef, isRecording, recordings, permissionPending,
                   transitionTimer, stopped>>

\* onresult's timer is due: isStopping = false; onWakeWordDetected(), that is
\* handleWakeWordDetected() up to its await of 300 ms
WakeDetectedTimer(i) ==
    /\ pc = "microphone"
    /\ Due(wake[i].detectedTimer)
    /\ LET cleared == [wake EXCEPT ![i] = [@ EXCEPT !.detectedTimer = Null,
                                                    !.isStopping = FALSE]]
       IN  IF isTransitioningRef
           THEN /\ wake' = cleared
                /\ UNCHANGED <<isTransitioningRef, wakeWordRecognitionRef, transitionTimer>>
           ELSE /\ isTransitioningRef' = TRUE
                /\ wake' = IF wakeWordRecognitionRef # Null
                           THEN [cleared EXCEPT ![wakeWordRecognitionRef] =
                                                    StopRecognition(@)]
                           ELSE cleared
                /\ wakeWordRecognitionRef' = Null
                /\ transitionTimer' = Ticks(TransitionDelay)
    /\ UNCHANGED <<pc, route, legIndex, fuelVars, planVars, parseVars, findStopsVars,
                   chatVars, isListeningRef, recordingStateRef, isRecording, recordings,
                   permissionPending, stopped>>

\* handleWakeWordDetected() after the 300 ms: setIsRecording(true) and
\* startRecordingWithSilenceDetection(...) up to its await of getUserMedia
TransitionTimer ==
    /\ pc = "microphone"
    /\ Due(transitionTimer)
    /\ transitionTimer' = Null
    /\ isRecording' = TRUE
    /\ recordings' = Append(recordings, AwaitingUserMedia)
    /\ UNCHANGED <<pc, route, legIndex, fuelVars, planVars, parseVars, findStopsVars,
                   chatVars, isListeningRef, isTransitioningRef, wakeWordRecognitionRef,
                   recordingStateRef, wake, permissionPending, stopped>>

\* getUserMedia resolves: the recording starts and handleWakeWordDetected ends
\* with recordingStateRef.current = state
GetUserMediaResolves(j) ==
    /\ pc = "microphone"
    /\ recordings[j].phase = "getUserMedia"
    /\ recordings' = [recordings EXCEPT ![j] = StartedRecording(@)]
    /\ recordingStateRef' = j
    /\ isTransitioningRef' = FALSE
    /\ UNCHANGED <<pc, route, legIndex, fuelVars, planVars, parseVars, findStopsVars,
                   chatVars, isListeningRef, wakeWordRecognitionRef, isRecording, wake,
                   permissionPending, transitionTimer, stopped>>

\* getUserMedia rejects: startRecordingWithSilenceDetection returns null
GetUserMediaRejects(j) ==
    /\ pc = "microphone"
    /\ recordings[j].phase = "getUserMedia"
    /\ recordings' = [recordings EXCEPT ![j] = [@ EXCEPT !.phase = "failed"]]
    /\ isRecording' = FALSE
    /\ isTransitioningRef' = FALSE
    /\ UNCHANGED <<pc, route, legIndex, fuelVars, planVars, parseVars, findStopsVars,
                   chatVars, isListeningRef, wakeWordRecognitionRef, recordingStateRef,
                   wake, permissionPending, transitionTimer, stopped>>

\* checkAudioLevel(), every 100 ms; speaking: volume > SILENCE_THRESHOLD
CheckAudioLevel(j, speaking) ==
    /\ pc = "microphone"
    /\ Due(recordings[j].silenceCheckInterval)
    /\ recordings' = [recordings EXCEPT ![j] =
          LET r == [@ EXCEPT !.silenceCheckInterval = Ticks(TickMs)]
          IN  IF speaking
              THEN [r EXCEPT !.hasSpoken = TRUE,
                             !.initialSpeechTimer = IF r.hasSpoken THEN @ ELSE Null,
                             !.silenceTimer = Null]
              ELSE IF r.hasSpoken /\ r.silenceTimer = Null
                   THEN [r EXCEPT !.silenceTimer = Ticks(SPEECH_END_TIMEOUT)]
                   ELSE r]
    /\ UNCHANGED <<pc, route, legIndex, fuelVars, planVars, parseVars, findStopsVars,
                   chatVars, isListeningRef, isTransitioningRef, wakeWordRecognitionRef,
                   recordingStateRef, isRecording, wake, permissionPending,
                   transitionTimer, stopped>>

RecordingTimerNames == {"silenceTimer", "maxRecordingTimer", "initialSpeechTimer"}

\* silenceTimer, maxRecordingTimer or initialSpeechTimer is due:
\* stopRecordingWithCleanup(reason), for initialSpeechTimer if (!hasSpoken)
RecordingTimer(j, timer) ==
    /\ pc = "microphone"
    /\ Due(recordings[j][timer])
    /\ IF timer = "initialSpeechTimer" /\ recordings[j].hasSpoken
       THEN /\ recordings' = [recordings EXCEPT ![j][timer] = Null]
            /\ UNCHANGED <<recordingStateRef, isRecording>>
       ELSE /\ recordings' =
                  HandleStopRecording(
                      [recordings EXCEPT ![j] =
                          [StopRecognition(ClearTimers(@)) EXCEPT !.reported = TRUE]])
            /\ recordingStateRef' = Null
            /\ isRecording' = FALSE
    /\ UNCHANGED <<pc, route, legIndex, fuelVars, planVars, parseVars, findStopsVars,
                   chatVars, isListeningRef, isTransitioningRef, wakeWordRecognitionRef,
                   wake, permissionPending, transitionTimer, stopped>>

\* the recording recognizer's onresult: onTranscript(transcript), that is
\* handleTranscript, then the cleanup, recognition.stop() and onStopRecording()
RecordingOnResult(j) ==
    /\ pc = "microphone"
    /\ recordings[j].recognition \in {"active", "ending"}
    /\ ~recordings[j].transcribed
    /\ recordings' =
          HandleStopRecording(
              [recordings EXCEPT ![j] =
                  [StopRecognition(ClearTimers(@)) EXCEPT
                      !.transcribed = TRUE,
                      !.reported = TRUE,
                      !.restartTimer = IF isListeningRef THEN Ticks(WakeRestartDelay)
                                       ELSE Null]])
    /\ recordingStateRef' = Null
    /\ isRecording' = FALSE
    /\ UNCHANGED <<pc, route, legIndex, fuelVars, planVars, parseVars, findStopsVars,
                   chatVars, isListeningRef, isTransitioningRef, wakeWordRecognitionRef,
                   wake, permissionPending, transitionTimer, stopped>>

\* the recording recognizer's onerror: the cleanup and onStopRecording(); the
\* recognizer then ends
RecordingOnError(j) ==
    /\ pc = "microphone"
    /\ recordings[j].recognition = "active"
    /\ recordings' =
          HandleStopRecording(
              [recordings EXCEPT ![j] =
                  [ClearTimers(@) EXCEPT !.recognition = "ending", !.reported = TRUE]])
    /\ recordingStateRef' = Null
    /\ isRecording' = FALSE
    /\ UNCHANGED <<pc, route, legIndex, fuelVars, planVars, parseVars, findStopsVars,
                   chatVars, isListeningRef, isTransitioningRef, wakeWordRecognitionRef,
                   wake, permissionPending, transitionTimer, stopped>>

\* the recording recognizer's onend: the cleanup only
RecordingOnEnd(j) ==
    /\ pc = "microphone"
    /\ recordings[j].recognition \in {"active", "ending"}
    /\ recordings' = [recordings EXCEPT ![j] =
                         [ClearTimers(@) EXCEPT !.recognition = "idle"]]
    /\ UNCHANGED <<pc, route, legIndex, fuelVars, planVars, parseVars, findStopsVars,
                   chatVars, isListeningRef, isTransitioningRef, wakeWordRecognitionRef,
                   recordingStateRef, isRecording, wake, permissionPending,
                   transitionTimer, stopped>>

\* handleTranscript's timer of 2000 ms is due: wake-word detection is started
\* again if (isListeningRef.current && !wakeWordRecognitionRef.current)
WakeRestartTimer(j) ==
    /\ pc = "microphone"
    /\ Due(recordings[j].restartTimer)
    /\ recordings' = [recordings EXCEPT ![j].restartTimer = Null]
    /\ IF isListeningRef /\ wakeWordRecognitionRef = Null
       THEN /\ wake' = Append(wake, StartWakeWordDetection(isListeningRef))
            /\ wakeWordRecognitionRef' = Len(wake) + 1
       ELSE UNCHANGED <<wake, wakeWordRecognitionRef>>
    /\ UNCHANGED <<pc, route, legIndex, fuelVars, planVars, parseVars, findStopsVars,
                   chatVars, isListeningRef, isTransitioningRef, recordingStateRef,
                   isRecording, permissionPending, transitionTimer, stopped>>

\* a timer of the code is due
TimerFires ==
    \/ TransitionTimer
    \/ \E i \in DOMAIN wake : WakeOnendTimer(i) \/ WakeErrorTimer(i) \/ WakeDetectedTimer(i)
    \/ \E j \in DOMAIN recordings :
          \/ \E speaking \in BOOLEAN : CheckAudioLevel(j, speaking)
          \/ \E timer \in RecordingTimerNames : RecordingTimer(j, timer)
          \/ WakeRestartTimer(j)

NextVoice ==
    \/ Tick
    \/ TimerFires
    \/ StartListening
    \/ PermissionGranted
    \/ PermissionDenied
    \/ StopListening
    \/ \E i \in DOMAIN wake :
          \/ WakeOnResult(i)
          \/ \E error \in WakeErrors : WakeOnError(i, error)
          \/ WakeOnEnd(i)
    \/ \E j \in DOMAIN recordings :
          \/ GetUserMediaResolves(j)
          \/ GetUserMediaRejects(j)
          \/ RecordingOnResult(j)
          \/ RecordingOnError(j)
          \/ RecordingOnEnd(j)

SpecVoice == InitVoice /\ [][NextVoice]_vars

\* Time passes and a timer that is due fires; nothing is assumed of the user,
\* of the recognizers or of getUserMedia.
SpecVoiceFair == SpecVoice /\ WF_vars(Tick) /\ WF_vars(TimerFires)

-----------------------------------------------------------------------------
(* Properties of calculateGasStops *)

RECURSIVE RouteMilesUpTo(_)
\* total length of legs 1..k, in tenths of a mile
RouteMilesUpTo(k) ==
    IF k <= 0 THEN 0 ELSE RouteMilesUpTo(k - 1) + LegDistanceMiles(route[k])

RouteMiles == RouteMilesUpTo(Len(route))

RECURSIVE MultiplesBelow(_, _, _)
\* <<first, first + step, first + 2*step, ...>>, the terms below limit
MultiplesBelow(first, step, limit) ==
    IF first < limit
    THEN <<first>> \o MultiplesBelow(first + step, step, limit)
    ELSE <<>>

StopDistances == [i \in DOMAIN stops |-> stops[i].distance]

\* C1: with minimumFuelThreshold <= fuelLevel, the stops are exactly at the
\* cumulative distances (f-t)*R + k*(1-t)*R below the route length D, whatever
\* the split into legs: while a leg is being driven the distance covered plus
\* the distance left of the leg is the length of the legs entered so far, the
\* distance covered at the end is D, nothing is emitted when D <= (f-t)*R, and
\* R = 300, f = 1.0, t = 0.2 with one 500-mile leg gives stops at 240 and 480.
GasStopsAtSafeRangeMultiples ==
    (minimumFuelThreshold <= fuelLevel) =>
        /\ pc = "while" =>
              totalDistanceCovered + remainingLegDistance = RouteMilesUpTo(legIndex)
        /\ pc = "for" => totalDistanceCovered = RouteMilesUpTo(legIndex)
        /\ pc = "returned" =>
              /\ totalDistanceCovered = RouteMiles
              /\ StopDistances =
                    MultiplesBelow((fuelLevel - minimumFuelThreshold) * vehicleRange,
                                   SafeRangePerTank, RouteMiles)
              /\ (RouteMiles <= (fuelLevel - minimumFuelThreshold) * vehicleRange)
                    => stops = <<>>
              /\ (vehicleRange = 300 /\ fuelLevel = 10 /\ minimumFuelThreshold = 2
                    /\ Len(route) = 1 /\ route[1].distance = 804670)
                    => StopDistances = <<2400, 4800>>

\* C1 witness: a two-leg route has been simulated; a stop fell in the first leg,
\* the tank reached the threshold exactly at the leg boundary, and the second
\* leg needed two more stops.
GasStopsWitness ==
    /\ pc = "returned"
    /\ minimumFuelThreshold <= fuelLevel
    /\ Len(route) = 2
    /\ Len(stops) >= 3
    /\ \E i \in DOMAIN stops : stops[i].distance = RouteMilesUpTo(1)
    /\ stopLegs[1] = 1

\* C2: every stop lies on its leg at the fraction (miles driven within that leg
\* when the threshold is reached) / (leg length), so that the later stops of a
\* leg lie further along it than the earlier ones.
GasStopAtLegFraction ==
    (minimumFuelThreshold <= fuelLevel) =>
    /\ \A i \in DOMAIN stops :
          LET leg == route[stopLegs[i]]
              drivenInLeg == stops[i].distance - RouteMilesUpTo(stopLegs[i] - 1)
          IN  stops[i].location =
                 Interpolate(leg.start_location, leg.end_location,
                             [num |-> drivenInLeg, den |-> LegDistanceMiles(leg)])
    /\ \A i, j \in DOMAIN stops :
          (i < j /\ stopLegs[i] = stopLegs[j]) =>
              stops[i].location.lng > stops[j].location.lng

-----------------------------------------------------------------------------
(* Properties of the planner *)

BudgetReturned == pc \in {"buildTimeline", "checkFeasibility", "done", "threw"}
TimelineReturned == pc \in {"checkFeasibility", "done"}

RECURSIVE SumStepDurations(_, _, _)
\* sum of the durations of the steps 1..k of the given type
SumStepDurations(ss, k, type) ==
    IF k = 0 THEN 0
    ELSE SumStepDurations(ss, k - 1, type)
         + (IF ss[k].type = type THEN ss[k].duration ELSE 0)

DrivingInTimeline == SumStepDurations(steps, Len(steps), "drive")
DwellInTimeline == SumStepDurations(steps, Len(steps), "stop")

\* the minutes the constraint allows, counted from now: the Duration value, or
\* deadline - now
ConstraintAvailable ==
    IF timeConstraint.type = "duration"
    THEN timeConstraint.value * PerMinute
    ELSE FloorMulDiv(PerMinute, timeConstraint.value - now, TicksPerMinute)

ArrivalIsLate ==
    IF timeConstraint.type = "duration"
    THEN DrivingInTimeline + DwellInTimeline > timeConstraint.value * PerMinute
    ELSE currentTime > timeConstraint.value

BufferInTimeline == ConstraintAvailable - DrivingInTimeline - DwellInTimeline

Minutes(m) == m * PerMinute

\* the time from instant a to instant b, in sixtieths of a minute
MinutesBetween(a, b) == FloorMulDiv(PerMinute, b - a, TicksPerMinute)

NegativeDwellIsImpossible ==
    (pc = "done" /\ timeBudget.dwellTime < 0) => feasibility = "impossible"

\* the allocation the budget holds for task i
AllocationOf(i) == timeBudget.stopAllocations[tasks[i].description]

DistinctDescriptions ==
    \A i, j \in DOMAIN tasks : i # j => tasks[i].description # tasks[j].description

TotalTypicalOfTasks == TotalTypical(tasks, Len(tasks))

EstimatedDuration(category) ==
    CASE category = "school" -> 5
      [] category = "grocery" -> 20
      [] category = "restaurant" -> 15
      [] category = "coffee" -> 10
      [] category = "post_office" -> 10
      [] category = "pharmacy" -> 10
      [] category = "gas" -> 5
      [] category = "bank" -> 15
      [] category = "gym" -> 60
      [] OTHER -> 10

RECURSIVE TotalEstimated(_, _)
TotalEstimated(ts, k) ==
    IF k = 0 THEN 0 ELSE TotalEstimated(ts, k - 1) + EstimatedDuration(ts[k].category)

\* C6: every task gets max(5, floor(default * ratio)) minutes, default being
\* the task's category default and ratio = dwellTime / sum of the defaults:
\* a whole number of minutes, at least 5.
AllocationIsFlooredShare ==
    (BudgetReturned /\ route # <<>>) =>
        \A i \in DOMAIN tasks :
            LET share == FloorMulDiv(EstimatedDuration(tasks[i].category),
                                     timeBudget.dwellTime,
                                     TotalEstimated(tasks, Len(tasks)) * PerMinute)
            IN  /\ ~AllocationOf(i).nan
                /\ AllocationOf(i).v >= MIN_DWELL
                /\ AllocationOf(i).v = IF share >= MIN_DWELL THEN share ELSE MIN_DWELL

StepTypes == [i \in DOMAIN steps |-> steps[i].type]

RECURSIVE DriveStopPattern(_, _)
\* drive, stop, drive, stop, ..., drive: n drives with a stop between them
DriveStopPattern(k, n) ==
    IF k > n THEN <<>>
    ELSE IF k = n THEN <<"drive">>
    ELSE <<"drive", "stop">> \o DriveStopPattern(k + 1, n)

\* C7: n Drive steps in leg order, and a Stop step after every leg but the
\* last (n-1 stops, none for a single leg); the stop after leg i is the one of
\* the i-th task and lasts its allocation.
TimelineStopsBetweenLegs ==
    TimelineReturned =>
        /\ StepTypes = DriveStopPattern(1, Len(route))
        /\ \A i \in 1..(Len(route) - 1) :
              /\ steps[2 * i - 1].duration = DriveDuration(route[i])
              /\ steps[2 * i].description = tasks[i].description
              /\ steps[2 * i].duration = DwellDuration(timeBudget, tasks[i]) * PerMinute
        /\ steps[Len(steps)].duration = DriveDuration(route[Len(route)])

\* C8: the first step starts at now, each step starts when the previous one
\* ends, each step's end minus its start is its duration, the arrival is the
\* end of the last step, and the durations add up to arrival - first start
\* (in minutes), also when a stop falls back to the 10-minute default.
TimelineIsContiguous ==
    TimelineReturned =>
        /\ steps[1].startTime = now
        /\ \A i \in 2..Len(steps) : steps[i].startTime = steps[i - 1].endTime
        /\ \A i \in DOMAIN steps :
              MinutesBetween(steps[i].startTime, steps[i].endTime) = steps[i].duration
        /\ Timeline.arrivalTime = steps[Len(steps)].endTime
        /\ DrivingInTimeline + DwellInTimeline
              = MinutesBetween(steps[1].startTime, Timeline.arrivalTime)
        /\ Timeline.totalDuration = DrivingInTimeline + DwellInTimeline

\* C8 witness: a returned timeline with two stops, one of which fell back to
\* the 10-minute default because its allocation is NaN.
TimelineFallbackWitness ==
    /\ TimelineReturned
    /\ Len(steps) = 5
    /\ \E i \in DOMAIN tasks : i < Len(route) /\ AllocationOf(i).nan
    /\ steps[2].duration = Minutes(FallbackDwell)

\* C9: a TimeBudget is returned only for a positive totalAvailable (otherwise
\* the result is "no budget"), and its bufferTime is never negative.
BudgetHasPositiveTime ==
    (BudgetReturned /\ route # <<>>) => (timeBudget.totalAvailable > 0 /\ timeBudget.bufferTime >= 0)

\* C10: for a constraint of type 'arrival_time' totalAvailable is
\* (constraint instant - now) in minutes, as for a deadline.
ArrivalBudgetIsTimeToDeadline ==
    (BudgetReturned /\ route # <<>> /\ timeConstraint.type = "arrival_time") =>
        timeBudget.totalAvailable =
            FloorMulDiv(PerMinute, timeConstraint.value - now, TicksPerMinute)

\* the compression flag of a result object: a member named compressed that is set
HasCompressionFlag(result) ==
    "compressed" \in DOMAIN result /\ result["compressed"] = TRUE

\* dwellTime / totalTypical < 0.7 for the tasks of the request, all of known category
DwellRatioBelowWarnLevel ==
    /\ tasks # <<>>
    /\ ~TotalTypicalOfTasks.nan
    /\ timeBudget.dwellTime * 10 < 7 * TotalTypicalOfTasks.v * PerMinute

\* C18: when ratio = dwellMinutes / totalTypical is below 0.7, the result of
\* allocateDwellTime (the returned Map, or the TimeBudget it is stored in)
\* carries a compression warning flag, and nothing is thrown.
AllocationFlagsCompression ==
    (BudgetReturned /\ route # <<>> /\ DwellRatioBelowWarnLevel)
        => /\ thrown = "" \/ pc = "threw"
           /\ \/ HasCompressionFlag(timeBudget.stopAllocations)
              \/ HasCompressionFlag(timeBudget)

\* C19: a route with an empty leg list is rejected by the budget calculation
\* and the timeline builder with a "no route" failure: no TimeBudget is
\* returned for it and the failure is not an unrelated error.
EmptyRouteIsRejected ==
    route = <<>> =>
        /\ pc \in {"calculateTimeBudget", "threw"}
        /\ pc = "threw" => thrown = "NoRoute"

\* C20: whenever the stored trip has both a fuel level and a vehicle range,
\* POST /api/find-stops runs calculateGasStops before it answers, for every
\* fuel level from 0 (empty tank) to 1.
FuelSimulationRunsWhenKnown ==
    (pc = "responded" /\ response.status = 200
        /\ tripRequest.fuelLevel # Null /\ tripRequest.vehicleRange # Null)
        => response.gasStopsComputed

-----------------------------------------------------------------------------
(* Properties of the request parser *)

Parsed == pc = "parsed"
ConstraintParsed == pc \in {"taskPatterns", "genericStopPattern", "parsed"}

\* the message holds an "in <N> <unit>" phrase
HasDurationPhrase ==
    \E i \in DOMAIN message :
        /\ i + 2 <= Len(message)
        /\ message[i].text = "in"
        /\ IsLiteral(message[i + 1])
        /\ message[i + 2].text \in {"hours", "minutes"}

\* the message holds "by <time>" after "arrive at <location>"
HasArrivalPhrase ==
    \E i, j \in DOMAIN message :
        /\ j >= i + 3 /\ j + 1 <= Len(message)
        /\ message[i].text = "arrive" /\ message[i + 1].text = "at"
        /\ message[j].text = "by" /\ IsLiteral(message[j + 1])

\* the message holds "by <time>"
HasDeadlinePhrase ==
    \E j \in DOMAIN message :
        j + 1 <= Len(message) /\ message[j].text = "by" /\ IsLiteral(message[j + 1])

StartOfDay(date) == date - (date % SecondsPerDay)

\* C12: every deadline or arrival_time instant is not earlier than now and is
\* today's occurrence of its wall-clock time or, when that is past, the
\* occurrence one calendar day later.
InstantIsNextOccurrence ==
    (ConstraintParsed /\ timeConstraint.type \in {"deadline", "arrival_time"}) =>
        LET value == timeConstraint.value
            today == StartOfDay(now) + (value % SecondsPerDay)
        IN  /\ value >= now
            /\ value \in {today, today + SecondsPerDay}
            /\ value = today + SecondsPerDay => today < now

\* the time literal of the arrival phrase that parseTimeConstraint matched
ArrivalLiteral == message[ArrivalMatch(message).by + 1]

\* C13: a literal without am/pm and with hour h < 12 is taken as h + 12 when
\* the current hour has reached h, in the arrival pattern as in the deadline
\* pattern: "arrive at home by 5" gives the instant that "by 5" gives.
ArrivalResolvesLikeDeadline ==
    (ConstraintParsed /\ timeConstraint.type = "arrival_time"
        /\ ArrivalLiteral.meridiem = "" /\ ArrivalLiteral.digits < 12
        /\ GetHours(now) >= ArrivalLiteral.digits)
        => /\ timeConstraint.value % SecondsPerDay
                = (ArrivalLiteral.digits + 12) * 3600 + MinutesOf(ArrivalLiteral) * 60
           /\ timeConstraint.value
                = DeadlineConstraint(<<Word("by"), ArrivalLiteral>>, now).value

\* the number of tasks of a category
TasksOfCategory(category) == Cardinality({k \in DOMAIN tasks : tasks[k].category = category})

\* the number of times a word stands in the message
Occurrences(w) == Cardinality({i \in DOMAIN message : ToLowerCase(message[i].text) = w})

\* C14: a text whose only food phrase is one "chinese restaurant" yields
\* exactly one restaurant task.
CuisinePhraseIsOneTask ==
    (Parsed /\ Occurrences("chinese") = 1 /\ Occurrences("restaurant") = 1)
        => TasksOfCategory("restaurant") = 1

\* the matched keyword text of task k, lower-cased
KeywordText(k) == LowerText(tasks[k].keywords[1])

\* C15: no two tasks of the returned list, specific or generic, have the same
\* matched keyword text, compared case-insensitively.
KeywordTextsDistinct ==
    Parsed => \A i, j \in DOMAIN tasks : i # j => KeywordText(i) # KeywordText(j)

\* the words a stand somewhere in the words b
WithinWords(a, b) ==
    \E i \in 0..(Len(b) - Len(a)) : SubSeq(b, i + 1, i + Len(a)) = a

\* C16: a generic task is emitted only for a phrase that no specific rule
\* covered: the phrase of a generic task neither holds nor lies in the
\* matched text of a specific task.
GenericOnlyForUncovered ==
    Parsed =>
        \A g, t \in DOMAIN tasks :
            (tasks[g].category = "generic" /\ tasks[t].category # "generic")
                => LET phrase == [k \in DOMAIN tasks[g].location |->
                                     ToLowerCase(tasks[g].location[k])]
                       matched == TextOf(KeywordText(t))
                   IN  ~WithinWords(phrase, matched) /\ ~WithinWords(matched, phrase)

\* the first position at which the matched text of task k stands in the message
KeywordPosition(k) ==
    FirstOf({i \in DOMAIN message :
               /\ i + Len(KeywordText(k)) - 1 <= Len(message)
               /\ LowerText(SubSeq(message, i, i + Len(KeywordText(k)) - 1))
                    = KeywordText(k)})

\* C17: the tasks are returned in the order in which their matched phrases
\* stand in the text.
TasksInTextOrder ==
    Parsed => \A i, j \in DOMAIN tasks : i < j => KeywordPosition(i) <= KeywordPosition(j)

-----------------------------------------------------------------------------
(* Further properties of calculateGasStops *)

\* x lies between a and b, whichever of the two is the larger
Between(x, a, b) == (a <= x /\ x <= b) \/ (b <= x /\ x <= a)

\* the interpolated location lies on the segment between the leg's endpoints
OnLeg(location, leg) ==
    /\ Between(location.lat, leg.start_location.lat * location.den,
               leg.end_location.lat * location.den)
    /\ Between(location.lng, leg.start_location.lng * location.den,
               leg.end_location.lng * location.den)

\* C21: for every route, range and fuel level (also one below the threshold)
\* the stops come in strictly ascending cumulative distance, each cumulative
\* distance lies between 0 and the length of the route, and each location lies
\* between the endpoints of the leg the stop was emitted in.
GasStopsOrderedOnRoute ==
    /\ \A i, j \in DOMAIN stops : i < j => stops[i].distance < stops[j].distance
    /\ \A i \in DOMAIN stops :
          /\ 0 <= stops[i].distance
          /\ stops[i].distance <= RouteMiles
          /\ OnLeg(stops[i].location, route[stopLegs[i]])

\* C22: the simulation terminates: whatever the fuel level, the range and the
\* threshold below 1, and however much longer than the safe range a leg is,
\* the function returns its list of stops.
GasStopsTerminates == <>(pc = "returned")

\* C22 witness: the function has returned after one leg needed several stops,
\* the first of them with the tank below the reserve at the start.
GasStopsTerminatesWitness ==
    /\ pc = "returned"
    /\ fuelLevel < minimumFuelThreshold
    /\ Len(stops) >= 3
    /\ stopLegs[1] = stopLegs[3]

-----------------------------------------------------------------------------
(* Further properties of the request parser *)

\* the priority and the estimated duration the claim fixes for each category
CategoryTable ==
    [school      |-> [priority |-> "high",   estimatedDuration |-> 5],
     grocery     |-> [priority |-> "medium", estimatedDuration |-> 20],
     restaurant  |-> [priority |-> "medium", estimatedDuration |-> 15],
     coffee      |-> [priority |-> "low",    estimatedDuration |-> 10],
     post_office |-> [priority |-> "medium", estimatedDuration |-> 10],
     pharmacy    |-> [priority |-> "high",   estimatedDuration |-> 10],
     gas         |-> [priority |-> "medium", estimatedDuration |-> 5],
     bank        |-> [priority |-> "medium", estimatedDuration |-> 15],
     gym         |-> [priority |-> "medium", estimatedDuration |-> 60],
     generic     |-> [priority |-> "medium", estimatedDuration |-> 10]]

FollowsCategoryTable(task) ==
    /\ task.category \in DOMAIN CategoryTable
    /\ task.priority = CategoryTable[task.category].priority
    /\ task.estimatedDuration = CategoryTable[task.category].estimatedDuration

\* C24: every task extractTasks returns has a category of the fixed vocabulary
\* with that category's priority and estimated duration (so has every row of
\* the rule table, whether or not a message of the model reaches it), and it
\* has a location exactly if its category is generic.
TasksFollowCategoryTable ==
    /\ \A k \in DOMAIN taskPatterns :
          /\ FollowsCategoryTable(taskPatterns[k])
          /\ taskPatterns[k].category # "generic"
    /\ \A k \in DOMAIN tasks :
          /\ FollowsCategoryTable(tasks[k])
          /\ (tasks[k].location # <<>>) <=> (tasks[k].category = "generic")

\* C24 witness: a message gave a specific task and a generic one
TasksFollowCategoryTableWitness ==
    /\ Parsed
    /\ \E i, j \in DOMAIN tasks :
          /\ tasks[i].category = "gym"
          /\ tasks[j].category = "generic"
          /\ tasks[j].location = <<"library">>

\* C23: parsing and planning are functions of the text, the route and the
\* instant now at which the request starts: whatever the clock does while the
\* request runs, the constraint and the budget are the ones obtained when
\* every reading of the clock returns now.
ResultIsFunctionOfNow ==
    /\ pc \in {"calculateTimeBudget", "planned"} =>
          timeConstraint = ParseTimeConstraintOf(message, now)
    /\ pc = "planned" =>
          timeBudget = CalculateTimeBudgetOf(route, timeConstraint, tasks, now)

-----------------------------------------------------------------------------
(* Further properties of the planner *)

\* every task's category has a typical dwell time, the dwell time of the
\* budget covers their sum, and the route has one intermediate stop per task;
\* the constraint is of a type calculateTimeBudget handles
DwellCoversTypicalTimes ==
    /\ timeConstraint.type \in {"duration", "deadline"}
    /\ \A i \in DOMAIN tasks : tasks[i].category \in DOMAIN TYPICAL_DWELL_TIMES
    /\ timeBudget.dwellTime >= Minutes(TotalTypicalOfTasks.v)
    /\ Len(route) = Len(tasks) + 1

\* C30: when the dwell time covers the typical times of the tasks and the route
\* has one intermediate stop per task, the stop durations of the timeline sum
\* to at most the dwell time, the timeline lasts at most totalAvailable minus
\* the buffer, and the itinerary is not classified impossible.
StopsFitDwellTime ==
    (TimelineReturned /\ DwellCoversTypicalTimes) =>
        /\ DwellInTimeline <= timeBudget.dwellTime
        /\ totalDuration <= timeBudget.totalAvailable - timeBudget.bufferTime
        /\ pc = "done" => feasibility # "impossible"

-----------------------------------------------------------------------------
(* Properties of POST /api/chat *)

\* the fields of a stored trip request that a chat message without fuel data
\* is said to leave alone
KeptFields == {"id", "origin", "destination", "fuelLevel", "vehicleRange", "route", "stops"}

\* C28: a follow-up message on an existing trip whose parsed parameters have no
\* fuelLevel and no vehicleRange leaves the stored fuelLevel and vehicleRange
\* as they were, and the id, origin, destination, route and stops as well.
FollowUpKeepsFuelData ==
    [][(/\ clientTripId # Null
        /\ accepted' # accepted
        /\ tripParameters'.fuelLevel = Undefined
        /\ tripParameters'.vehicleRange = Undefined)
       => \A k \in KeptFields :
             tripRequests'[clientTripId][k] = tripRequests[clientTripId][k]]_vars

\* the contents of the user messages of a conversation history
UserContents(history) ==
    LET users == SelectSeq(history, LAMBDA h : h.role = "user")
    IN  [k \in DOMAIN users |-> users[k].content]

\* C29: every user message the server has answered is in the history given to
\* parseUserRequest for each later message of the conversation, in the order
\* sent, also the messages sent before the trip request existed.
HistoryHasEveryMessage ==
    accepted # <<>> =>
        UserContents(conversationHistory) = SubSeq(accepted, 1, Len(accepted) - 1)

-----------------------------------------------------------------------------
(* Properties of the microphone *)

\* the session's recognizer has been started and has not been stopped or ended
RecordingActive(j) == recordings[j].recognition = "active"

ActiveRecordings == {j \in DOMAIN recordings : RecordingActive(j)}

WakeWordActive == \E i \in DOMAIN wake : wake[i].recognition = "active"

\* C25: every recording that startRecordingWithSilenceDetection has started
\* eventually reports its stop by calling onStopRecording, whatever the order
\* of the audio-level checks, the timers and the recognizer's events; a
\* recording that the hook itself has stopped with stopRecording is left aside.
RecordingReportsStop ==
    \A j \in 1..MaxDetections :
        (j \in DOMAIN recordings /\ recordings[j].phase = "recording")
        ~> (j \in DOMAIN recordings
            /\ (recordings[j].reported \/ recordings[j].stoppedByHook))

\* A recording that has started, whose recognizer has ended, whose timers
\* are all cleared and that has not reported its stop.
RecordingIsSilent(j) ==
    /\ recordings[j].phase = "recording"
    /\ recordings[j].recognition = "idle"
    /\ ~recordings[j].reported
    /\ RecordingTimers(recordings[j]) = {Null}

\* Nothing is left that would call onStopRecording for such a recording: it
\* never reports its stop, whatever happens next.
SilentRecordingStaysSilent ==
    [][\A j \in DOMAIN recordings : RecordingIsSilent(j) => RecordingIsSilent(j)']_vars

\* C26: after stopListening() has returned and until startListening() is
\* called again, no recording session is active.
NoRecordingAfterStopListening == stopped => ActiveRecordings = {}

\* C27: the wake-word recognizer and a recording session are never active at
\* the same time, and at most one recording session is active.
RecognizersExclusive ==
    /\ WakeWordActive => ActiveRecordings = {}
    /\ Cardinality(ActiveRecordings) <= 1

====
